---- MODULE Spec2Model ----
(***************************************************************************)
(* A model of kube-score's rule registry (score/checks), enablement policy *)
(* (scorecard.isEnabled), scoring engine (score.Score) and the             *)
(* PodDisruptionBudget resolver (score/disruptionbudget).                  *)
(*                                                                         *)
(* Go strings are TLA+ strings; the string functions the code calls        *)
(* (ToLower, TrimSpace, Split, ReplaceAll) are computed character by       *)
(* character.  A Go map is a function whose domain is the set of keys.     *)
(***************************************************************************)
EXTENDS Integers, Sequences, FiniteSets, TLC

VARIABLES
    \* ---- one call of ScoredObject.isEnabled -------------------------------
    check,             \* the ks.Check the call is about
    annotations,       \* the object's own annotations
    childAnnotations,  \* the pod template's annotations, or nil
    so,                \* the ScoredObject's settings
    ret,               \* the value the call returned
    \* ---- one run of the command: RegisterAllChecks, then Score -------------
    opts,              \* the command line options of the run
    allObjects,        \* ks.AllTypes: the parsed objects, one list per accessor
    registrations,     \* the Register calls RegisterAllChecks makes, in order
    allChecks,         \* *checks.Checks: the registry
    runConfig,         \* *config.RunConfiguration
    pc,                \* "idle", "register", "score" or "done"
    nreg,              \* how many registrations RegisterAllChecks has made
    loop,              \* which of the eleven loops of Score is running
    idx,               \* the position in the list the loop ranges over
    pending,           \* the entries of the rule map still to visit for the object
    calls,             \* the rule function calls made so far, in order
    scoreCard,         \* scorecard.Scorecard: object key -> list of TestScore
    result,            \* what Score returned
    \* ---- one call of a rule function ---------------------------------------
    ruleCall,          \* the rule function called and what it is called with
    ruleOut,           \* what the rule function returned
    \* ---- the registry on its own -------------------------------------------
    listed,            \* what Checks.All() returned
    \* ---- the skip expressions of a run -------------------------------------
    skipParse          \* the loop of run() over the --skip flags

enabledVars == <<check, annotations, childAnnotations, so, ret>>

scoreVars == <<opts, allObjects, registrations, allChecks, runConfig, pc, nreg, loop, idx,
               pending, calls, scoreCard, result>>

ruleVars == <<ruleCall, ruleOut>>

registryVars == <<listed>>

skipVars == <<skipParse>>

vars == <<check, annotations, childAnnotations, so, ret,
          opts, allObjects, registrations, allChecks, runConfig, pc, nreg, loop, idx,
          pending, calls, scoreCard, result, ruleCall, ruleOut, listed, skipParse>>

(***************************************************************************)
(* Strings                                                                 *)
(***************************************************************************)
UpperLetters == "ABCDEFGHIJKLMNOPQRSTUVWXYZ"

LowerLetters == "abcdefghijklmnopqrstuvwxyz"

\* the character at position i of s
CharAt(s, i) == SubSeq(s, i, i)

\* the lower case letter of every upper case letter
LowerTable ==
    [c \in {CharAt(UpperLetters, i) : i \in 1..Len(UpperLetters)} |->
        CharAt(LowerLetters, CHOOSE i \in 1..Len(UpperLetters) : CharAt(UpperLetters, i) = c)]

\* unicode.ToLower on one character of the alphabet the model uses
LowerOf(c) == IF c \in DOMAIN LowerTable THEN LowerTable[c] ELSE c

RECURSIVE ToLower(_)
\* strings.ToLower: every character mapped, by halves to keep the recursion flat
ToLower(s) ==
    IF s = "" THEN ""
    ELSE IF Len(s) = 1 THEN LowerOf(s)
    ELSE LET h == Len(s) \div 2
         IN ToLower(SubSeq(s, 1, h)) \o ToLower(SubSeq(s, h + 1, Len(s)))

\* unicode.IsSpace, for the white space a manifest value can carry
IsSpace(c) == c \in {" ", "\t", "\n", "\r"}

\* strings.TrimSpace: from the first to the last character that is not white space
TrimSpace(s) ==
    LET keep == {i \in 1..Len(s) : ~IsSpace(CharAt(s, i))}
    IN IF keep = {} THEN ""
       ELSE SubSeq(s, CHOOSE i \in keep : \A j \in keep : i <= j,
                      CHOOSE i \in keep : \A j \in keep : j <= i)

\* strings.Split with a one-character separator: the pieces between
\* consecutive separators; Split("", ",") is [""]
Split(s, sep) ==
    LET at == {i \in 1..Len(s) : CharAt(s, i) = sep}
        begins == {0} \cup at
        ends == at \cup {Len(s) + 1}
        nth(S, n) == CHOOSE p \in S : Cardinality({q \in S : q < p}) = n - 1
    IN [n \in 1..(Cardinality(at) + 1) |->
            SubSeq(s, nth(begins, n) + 1, nth(ends, n) - 1)]

RECURSIVE ReplaceAll(_, _, _)
\* strings.ReplaceAll with a one-character pattern
ReplaceAll(s, old, new) ==
    IF s = "" THEN ""
    ELSE IF Len(s) = 1 THEN (IF s = old THEN new ELSE s)
    ELSE LET h == Len(s) \div 2
         IN ReplaceAll(SubSeq(s, 1, h), old, new)
                \o ReplaceAll(SubSeq(s, h + 1, Len(s)), old, new)

(***************************************************************************)
(* Go maps                                                                 *)
(***************************************************************************)
EmptyMap == [k \in {} |-> ""]

\* a map[string]string value: nil, or a function from its keys
NilMap == [isNil |-> TRUE, kv |-> EmptyMap]

MakeMap(kv) == [isNil |-> FALSE, kv |-> kv]

\* m[k] of a map[string]string: the zero value "" for a missing key or a nil map
MapGet(m, k) == IF k \in DOMAIN m.kv THEN m.kv[k] ELSE ""

MapHas(m, k) == k \in DOMAIN m.kv

\* the lists of at most n elements of S
RECURSIVE ListsUpTo(_, _)
ListsUpTo(S, n) ==
    IF n = 0 THEN {<<>>}
    ELSE LET shorter == ListsUpTo(S, n - 1)
         IN shorter \cup {Append(l, x) : l \in {k \in shorter : Len(k) = n - 1}, x \in S}

(***************************************************************************)
(* score/checks: rule metadata                                             *)
(***************************************************************************)
machineFriendlyName(in) == ReplaceAll(ToLower(in), " ", "-")

NewCheck(name, targetType, optional) ==
    [Name |-> name, ID |-> machineFriendlyName(name),
     TargetType |-> targetType, Optional |-> optional]

(***************************************************************************)
(* scorecard: the enablement policy                                        *)
(***************************************************************************)
ignoredChecksAnnotation == "kube-score/ignore"

optionalChecksAnnotation == "kube-score/enable"

impliedIgnoreAnnotations ==
    ("container-resources" :> <<"container-ephemeral-storage-request-and-limit">>)
    @@ ("container-resource-requests-equal-limits"
            :> <<"container-ephemeral-storage-request-equals-limit">>)

AllowValues == {"allow", "allowed", "enable", "enabled", "yes"}

DenyValues == {"deny", "denied", "disable", "disabled", "no"}

\* the key of the rule-specific annotation
checkAnnotationKey(c) == "kube-score/" \o c.ID

\* the search of the list without strings.TrimSpace
isInList_Untrimmed(csv, key) ==
    LET parts == Split(csv, ",")
    IN \E n \in 1..Len(parts) :
         LET v == parts[n]
         IN \/ v = key
            \/ v = "*"
            \/ /\ v \in DOMAIN impliedIgnoreAnnotations
               /\ \E i \in 1..Len(impliedIgnoreAnnotations[v]) :
                    impliedIgnoreAnnotations[v][i] = key

\* the search of the comma separated list (enabled.go:24-42)
isInList(csv, key) ==
    LET parts == Split(csv, ",")
    IN \E n \in 1..Len(parts) :
         LET v == TrimSpace(parts[n])
         IN \/ v = key
            \/ v = "*"
            \/ /\ v \in DOMAIN impliedIgnoreAnnotations
               /\ \E i \in 1..Len(impliedIgnoreAnnotations[v]) :
                    impliedIgnoreAnnotations[v][i] = key

\* the closure isIn of isEnabled (enabled.go:11-43)
isIn(c, ann, csv, key) ==
    LET k == checkAnnotationKey(c)
        v == TrimSpace(ToLower(MapGet(ann, k)))
    IN IF MapHas(ann, k) /\ v \in AllowValues THEN TRUE
       ELSE IF MapHas(ann, k) /\ v \in DenyValues THEN FALSE
       ELSE isInList(csv, key)

\* isEnabled without the test of check.Optional: every rule runs by default
isEnabled_OptionalRunsByDefault(s, c, ann, child) ==
    IF /\ ~child.isNil
       /\ s.useIgnoreChecksAnnotation
       /\ isIn(c, child, MapGet(child, ignoredChecksAnnotation), c.ID)
    THEN FALSE
    ELSE IF /\ s.useIgnoreChecksAnnotation
            /\ isIn(c, ann, MapGet(ann, ignoredChecksAnnotation), c.ID)
    THEN FALSE
    ELSE TRUE

\* isEnabled without the lookup in enabledOptionalTests
isEnabled_NoRunWideEnable(s, c, ann, child) ==
    IF /\ ~child.isNil
       /\ s.useIgnoreChecksAnnotation
       /\ isIn(c, child, MapGet(child, ignoredChecksAnnotation), c.ID)
    THEN FALSE
    ELSE IF /\ ~child.isNil
            /\ s.useOptionalChecksAnnotation
            /\ isIn(c, child, MapGet(child, optionalChecksAnnotation), c.ID)
    THEN TRUE
    ELSE IF /\ s.useIgnoreChecksAnnotation
            /\ isIn(c, ann, MapGet(ann, ignoredChecksAnnotation), c.ID)
    THEN FALSE
    ELSE IF /\ s.useOptionalChecksAnnotation
            /\ isIn(c, ann, MapGet(ann, optionalChecksAnnotation), c.ID)
    THEN TRUE
    ELSE IF c.Optional THEN FALSE
    ELSE TRUE

\* isEnabled that reads the ignore lists whatever useIgnoreChecksAnnotation says
isEnabled_IgnoreAlwaysHonored(s, c, ann, child) ==
    IF /\ ~child.isNil
       /\ isIn(c, child, MapGet(child, ignoredChecksAnnotation), c.ID)
    THEN FALSE
    ELSE IF /\ ~child.isNil
            /\ s.useOptionalChecksAnnotation
            /\ isIn(c, child, MapGet(child, optionalChecksAnnotation), c.ID)
    THEN TRUE
    ELSE IF isIn(c, ann, MapGet(ann, ignoredChecksAnnotation), c.ID)
    THEN FALSE
    ELSE IF /\ s.useOptionalChecksAnnotation
            /\ isIn(c, ann, MapGet(ann, optionalChecksAnnotation), c.ID)
    THEN TRUE
    ELSE IF c.ID \in s.enabledOptionalTests THEN TRUE
    ELSE IF c.Optional THEN FALSE
    ELSE TRUE

\* ScoredObject.isEnabled (enabled.go:10-70)
isEnabled(s, c, ann, child) ==
    IF /\ ~child.isNil
       /\ s.useIgnoreChecksAnnotation
       /\ isIn(c, child, MapGet(child, ignoredChecksAnnotation), c.ID)
    THEN FALSE
    ELSE IF /\ ~child.isNil
            /\ s.useOptionalChecksAnnotation
            /\ isIn(c, child, MapGet(child, optionalChecksAnnotation), c.ID)
    THEN TRUE
    ELSE IF /\ s.useIgnoreChecksAnnotation
            /\ isIn(c, ann, MapGet(ann, ignoredChecksAnnotation), c.ID)
    THEN FALSE
    ELSE IF /\ s.useOptionalChecksAnnotation
            /\ isIn(c, ann, MapGet(ann, optionalChecksAnnotation), c.ID)
    THEN TRUE
    ELSE IF c.ID \in s.enabledOptionalTests THEN TRUE
    ELSE IF c.Optional THEN FALSE
    ELSE TRUE

(***************************************************************************)
(* The inputs of one isEnabled call                                        *)
(***************************************************************************)
MandatoryCheck == NewCheck("Container Ephemeral Storage Request and Limit", "Pod", FALSE)

OptionalCheck == NewCheck("Container Ephemeral Storage Request Equals Limit", "Pod", TRUE)

SampleChecks == {MandatoryCheck, OptionalCheck}

\* values of a kube-score/ignore or kube-score/enable annotation
ListValues ==
    { "*",
      "pod-probes",
      " " \o OptionalCheck.ID \o " ,container-resources",
      MandatoryCheck.ID \o ",\tcontainer-resource-requests-equal-limits " }

\* values of a rule-specific annotation
DirectiveValues ==
    { "allow", "Allowed", " ENABLE", "enabled ", "YES",
      "deny", "Denied", " DISABLE", "disabled ", "No",
      "maybe" }

IgnoreChoices == {EmptyMap} \cup {ignoredChecksAnnotation :> v : v \in ListValues}

EnableChoices == {EmptyMap} \cup {optionalChecksAnnotation :> v : v \in ListValues}

DirectiveChoices ==
    {EmptyMap} \cup {checkAnnotationKey(c) :> v : c \in SampleChecks, v \in DirectiveValues}

\* rule-specific annotations that stand beside a list annotation
DirectiveBesideList ==
    {checkAnnotationKey(c) :> v : c \in SampleChecks, v \in {"Allowed", "No", "maybe"}}

\* annotation sets: every pair of lists, every rule-specific annotation
\* alone, and some of them beside a wildcard list
SampleAnnotations ==
    { i @@ e : i \in IgnoreChoices, e \in EnableChoices }
    \cup DirectiveChoices
    \cup { d @@ l : d \in DirectiveBesideList,
                    l \in { ignoredChecksAnnotation :> "*",
                            optionalChecksAnnotation :> "*" } }

SampleSettings ==
    [ useIgnoreChecksAnnotation : BOOLEAN,
      useOptionalChecksAnnotation : BOOLEAN,
      enabledOptionalTests : { {}, {OptionalCheck.ID}, {MandatoryCheck.ID} } ]

NotCalled == [called |-> FALSE, value |-> FALSE]

NotReturned == [returned |-> FALSE, hasScoreCard |-> FALSE, err |-> ""]

\* no run of the command is in progress
ScoreIdle ==
    /\ opts = <<>>
    /\ allObjects = <<>>
    /\ registrations = <<>>
    /\ allChecks = <<>>
    /\ runConfig = <<>>
    /\ pc = "idle"
    /\ nreg = 0
    /\ loop = 0
    /\ idx = 0
    /\ pending = {}
    /\ calls = <<>>
    /\ scoreCard = <<>>
    /\ result = NotReturned

\* no rule function is called on its own
RuleIdle ==
    /\ ruleCall = <<>>
    /\ ruleOut = <<>>

NotListed == [called |-> FALSE, value |-> <<>>]

\* Checks.All() is not called on its own
RegistryIdle == listed = NotListed

\* the loop of run() over the --skip flags is not modelled
SkipIdle == skipParse = [phase |-> "idle", raw |-> <<>>, skipExpressions |-> <<>>, err |-> ""]

\* no call of isEnabled is modelled on its own
EnabledIdle ==
    /\ check = NewCheck("", "", FALSE)
    /\ annotations = NilMap
    /\ childAnnotations = NilMap
    /\ so = [useIgnoreChecksAnnotation |-> TRUE, useOptionalChecksAnnotation |-> TRUE,
             enabledOptionalTests |-> {}]
    /\ ret = NotCalled

InitEnabled ==
    /\ ScoreIdle
    /\ RegistryIdle
    /\ SkipIdle
    /\ RuleIdle
    /\ check \in SampleChecks
    /\ annotations \in {MakeMap(a) : a \in SampleAnnotations}
    /\ childAnnotations \in {NilMap} \cup {MakeMap(a) : a \in SampleAnnotations}
    /\ so \in SampleSettings
    /\ ret = NotCalled

\* the call so.isEnabled(check, annotations, childAnnotations)
CallIsEnabled ==
    /\ ~ret.called
    /\ ret' = [called |-> TRUE,
               value |-> isEnabled(so, check, annotations, childAnnotations)]
    /\ UNCHANGED <<check, annotations, childAnnotations, so>>
    /\ UNCHANGED scoreVars
    /\ UNCHANGED ruleVars
    /\ UNCHANGED registryVars
    /\ UNCHANGED skipVars

NextEnabled == CallIsEnabled

SpecEnabled == InitEnabled /\ [][NextEnabled]_vars

(***************************************************************************)
(* score/checks: the registry                                              *)
(***************************************************************************)
\* checks.Config
Config(ignored) == [isNil |-> FALSE, IgnoredTests |-> ignored]

NilConfig == [isNil |-> TRUE, IgnoredTests |-> {}]

\* an empty map[string]GenCheck
EmptyChecks == [k \in {} |-> <<>>]

\* checks.New: no rule listed, ten empty maps
New(cnf) ==
    [cnf |-> IF cnf.isNil THEN Config({}) ELSE cnf,
     all |-> <<>>,
     metas |-> EmptyChecks,
     pods |-> EmptyChecks,
     services |-> EmptyChecks,
     statefulsets |-> EmptyChecks,
     deployments |-> EmptyChecks,
     networkpolicies |-> EmptyChecks,
     ingresses |-> EmptyChecks,
     cronjobs |-> EmptyChecks,
     horizontalPodAutoscalers |-> EmptyChecks,
     poddisruptionbudgets |-> EmptyChecks]

\* Checks.isEnabled: the id is not in the configured set of ignored tests
Checks_isEnabled(c, ch) == ch.ID \notin c.cnf.IgnoredTests

\* reg that stores the rule in the map whether or not its id is ignored
reg_StoresIgnored(c, targetType, name, optional, fn, mp) ==
    LET ch == NewCheck(name, targetType, optional)
        genCheck == [Check |-> ch, Fn |-> fn]
        c1 == [c EXCEPT !.all = Append(@, ch)]
    IN [c1 EXCEPT ![mp] = (machineFriendlyName(ch.Name) :> genCheck) @@ @]

\* reg that leaves a rule already stored under the id in its place
reg_KeepsFirst(c, targetType, name, optional, fn, mp) ==
    LET ch == NewCheck(name, targetType, optional)
        genCheck == [Check |-> ch, Fn |-> fn]
        c1 == [c EXCEPT !.all = Append(@, ch)]
    IN IF ~Checks_isEnabled(c1, ch) THEN c1
       ELSE [c1 EXCEPT ![mp] = @ @@ (machineFriendlyName(ch.Name) :> genCheck)]

\* reg: list the rule, and store it in the map mp unless its id is ignored
reg(c, targetType, name, optional, fn, mp) ==
    LET ch == NewCheck(name, targetType, optional)
        genCheck == [Check |-> ch, Fn |-> fn]
        c1 == [c EXCEPT !.all = Append(@, ch)]
    IN IF ~Checks_isEnabled(c1, ch) THEN c1
       ELSE [c1 EXCEPT ![mp] = (machineFriendlyName(ch.Name) :> genCheck) @@ @]

RegisterMetaCheck(c, name, fn) == reg(c, "all", name, FALSE, fn, "metas")

RegisterOptionalMetaCheck(c, name, fn) == reg(c, "all", name, TRUE, fn, "metas")

RegisterPodCheck(c, name, fn) == reg(c, "Pod", name, FALSE, fn, "pods")

RegisterOptionalPodCheck(c, name, fn) == reg(c, "Pod", name, TRUE, fn, "pods")

RegisterHorizontalPodAutoscalerCheck(c, name, fn) ==
    reg(c, "HorizontalPodAutoscaler", name, FALSE, fn, "horizontalPodAutoscalers")

RegisterOptionalHorizontalPodAutoscalerCheck(c, name, fn) ==
    reg(c, "HorizontalPodAutoscaler", name, TRUE, fn, "horizontalPodAutoscalers")

RegisterCronJobCheck(c, name, fn) == reg(c, "CronJob", name, FALSE, fn, "cronjobs")

RegisterOptionalCronJobCheck(c, name, fn) == reg(c, "CronJob", name, TRUE, fn, "cronjobs")

RegisterStatefulSetCheck(c, name, fn) ==
    reg(c, "StatefulSet", name, FALSE, fn, "statefulsets")

RegisterOptionalStatefulSetCheck(c, name, fn) ==
    reg(c, "StatefulSet", name, TRUE, fn, "statefulsets")

RegisterDeploymentCheck(c, name, fn) ==
    reg(c, "Deployment", name, FALSE, fn, "deployments")

RegisterOptionalDeploymentCheck(c, name, fn) ==
    reg(c, "Deployment", name, TRUE, fn, "deployments")

RegisterIngressCheck(c, name, fn) == reg(c, "Ingress", name, FALSE, fn, "ingresses")

RegisterOptionalIngressCheck(c, name, fn) == reg(c, "Ingress", name, TRUE, fn, "ingresses")

RegisterNetworkPolicyCheck(c, name, fn) ==
    reg(c, "NetworkPolicy", name, FALSE, fn, "networkpolicies")

RegisterOptionalNetworkPolicyCheck(c, name, fn) ==
    reg(c, "NetworkPolicy", name, TRUE, fn, "networkpolicies")

RegisterPodDisruptionBudgetCheck(c, name, fn) ==
    reg(c, "PodDisruptionBudget", name, FALSE, fn, "poddisruptionbudgets")

RegisterServiceCheck(c, name, fn) == reg(c, "Service", name, FALSE, fn, "services")

RegisterOptionalServiceCheck(c, name, fn) == reg(c, "Service", name, TRUE, fn, "services")

\* Checks.All: every rule listed, in registration order
All(c) == c.all

\* the names of the ten maps of Checks
MapNames ==
    {"metas", "pods", "services", "statefulsets", "deployments", "networkpolicies",
     "ingresses", "cronjobs", "horizontalPodAutoscalers", "poddisruptionbudgets"}

\* one call of a Register method, as RegisterAllChecks makes it
Register(c, call) ==
    CASE call.method = "RegisterMetaCheck" -> RegisterMetaCheck(c, call.name, call.fn)
      [] call.method = "RegisterOptionalMetaCheck" ->
            RegisterOptionalMetaCheck(c, call.name, call.fn)
      [] call.method = "RegisterPodCheck" -> RegisterPodCheck(c, call.name, call.fn)
      [] call.method = "RegisterOptionalPodCheck" ->
            RegisterOptionalPodCheck(c, call.name, call.fn)
      [] call.method = "RegisterHorizontalPodAutoscalerCheck" ->
            RegisterHorizontalPodAutoscalerCheck(c, call.name, call.fn)
      [] call.method = "RegisterOptionalHorizontalPodAutoscalerCheck" ->
            RegisterOptionalHorizontalPodAutoscalerCheck(c, call.name, call.fn)
      [] call.method = "RegisterCronJobCheck" -> RegisterCronJobCheck(c, call.name, call.fn)
      [] call.method = "RegisterOptionalCronJobCheck" ->
            RegisterOptionalCronJobCheck(c, call.name, call.fn)
      [] call.method = "RegisterStatefulSetCheck" ->
            RegisterStatefulSetCheck(c, call.name, call.fn)
      [] call.method = "RegisterOptionalStatefulSetCheck" ->
            RegisterOptionalStatefulSetCheck(c, call.name, call.fn)
      [] call.method = "RegisterDeploymentCheck" ->
            RegisterDeploymentCheck(c, call.name, call.fn)
      [] call.method = "RegisterOptionalDeploymentCheck" ->
            RegisterOptionalDeploymentCheck(c, call.name, call.fn)
      [] call.method = "RegisterIngressCheck" -> RegisterIngressCheck(c, call.name, call.fn)
      [] call.method = "RegisterOptionalIngressCheck" ->
            RegisterOptionalIngressCheck(c, call.name, call.fn)
      [] call.method = "RegisterNetworkPolicyCheck" ->
            RegisterNetworkPolicyCheck(c, call.name, call.fn)
      [] call.method = "RegisterOptionalNetworkPolicyCheck" ->
            RegisterOptionalNetworkPolicyCheck(c, call.name, call.fn)
      [] call.method = "RegisterPodDisruptionBudgetCheck" ->
            RegisterPodDisruptionBudgetCheck(c, call.name, call.fn)
      [] call.method = "RegisterServiceCheck" -> RegisterServiceCheck(c, call.name, call.fn)
      [] call.method = "RegisterOptionalServiceCheck" ->
            RegisterOptionalServiceCheck(c, call.name, call.fn)

\* the registry after the calls calls[from..Len(calls)] on c
RECURSIVE RegisterFrom(_, _, _)
RegisterFrom(c, regs, from) ==
    IF from > Len(regs) THEN c
    ELSE RegisterFrom(Register(c, regs[from]), regs, from + 1)

(***************************************************************************)
(* Label selectors (k8s.io/apimachinery), as the resolvers use them        *)
(***************************************************************************)
\* *metav1.LabelSelector: nil, or match labels and match expressions
NilSelector == [isNil |-> TRUE, MatchLabels |-> EmptyMap, MatchExpressions |-> <<>>]

LabelSelector(matchLabels, matchExpressions) ==
    [isNil |-> FALSE, MatchLabels |-> matchLabels, MatchExpressions |-> matchExpressions]

Requirement(key, operator, values) == [Key |-> key, Operator |-> operator, Values |-> values]

\* a requirement that labels.NewRequirement rejects: an unknown operator, a
\* set operator without values, an existence operator with values, no key
InvalidRequirement(r) ==
    \/ r.Operator \notin {"In", "NotIn", "Exists", "DoesNotExist"}
    \/ r.Operator \in {"In", "NotIn"} /\ Len(r.Values) = 0
    \/ r.Operator \in {"Exists", "DoesNotExist"} /\ Len(r.Values) # 0
    \/ r.Key = ""

\* whether metav1.LabelSelectorAsSelector(ps) returns an error
LabelSelectorAsSelectorFails(ps) ==
    /\ ~ps.isNil
    /\ \/ \E k \in DOMAIN ps.MatchLabels : k = ""
       \/ \E n \in 1..Len(ps.MatchExpressions) : InvalidRequirement(ps.MatchExpressions[n])

\* Requirement.Matches
RequirementMatches(r, labels) ==
    CASE r.Operator = "In" ->
            r.Key \in DOMAIN labels
            /\ \E n \in 1..Len(r.Values) : r.Values[n] = labels[r.Key]
      [] r.Operator = "NotIn" ->
            r.Key \notin DOMAIN labels
            \/ \A n \in 1..Len(r.Values) : r.Values[n] # labels[r.Key]
      [] r.Operator = "Exists" -> r.Key \in DOMAIN labels
      [] r.Operator = "DoesNotExist" -> r.Key \notin DOMAIN labels

\* selector.Matches(labels) for the selector LabelSelectorAsSelector(ps)
\* returned without error: nil selects nothing, empty selects everything
SelectorMatches(ps, labels) ==
    /\ ~ps.isNil
    /\ \A k \in DOMAIN ps.MatchLabels : k \in DOMAIN labels /\ labels[k] = ps.MatchLabels[k]
    /\ \A n \in 1..Len(ps.MatchExpressions) : RequirementMatches(ps.MatchExpressions[n], labels)

(***************************************************************************)
(* scorecard.TestScore                                                     *)
(***************************************************************************)
GradeCritical == "GradeCritical"

GradeWarning == "GradeWarning"

GradeAllOK == "GradeAllOK"

\* the Grade of a TestScore no rule has set
GradeUnset == "GradeUnset"

\* the zero value of scorecard.TestScore
ZeroTestScore == [Grade |-> GradeUnset, Skipped |-> FALSE, Comments |-> <<>>]

\* TestScore.AddComment
AddComment(ts, path, summary, description) ==
    [ts EXCEPT !.Comments =
        Append(@, [Path |-> path, Summary |-> summary, Description |-> description])]

\* what a rule function returns
Returned(ts, err) == [score |-> ts, err |-> err]

(***************************************************************************)
(* score/disruptionbudget                                                  *)
(***************************************************************************)
\* fmt's %+v of a []string
RECURSIVE FormatStrings(_, _)
FormatStrings(list, n) ==
    IF n > Len(list) THEN "]"
    ELSE (IF n = 1 THEN "[" ELSE " ") \o list[n] \o FormatStrings(list, n + 1)

FailedToCreateSelector == "failed to create selector"

\* the loop of hasMatching from budgets[n] on
RECURSIVE hasMatchingFrom(_, _, _, _, _, _)
hasMatchingFrom(budgets, n, namespace, labels, options, hasNamespaceMismatch) ==
    IF n > Len(budgets) THEN
        IF Len(hasNamespaceMismatch) > 0
        THEN [match |-> FALSE,
              comment |-> "A matching budget was found, but in a different namespace. expected='"
                          \o namespace \o "' got='"
                          \o (IF Len(hasNamespaceMismatch) = 0 THEN "[]"
                              ELSE FormatStrings(hasNamespaceMismatch, 1)) \o "'",
              err |-> ""]
        ELSE [match |-> FALSE, comment |-> "", err |-> ""]
    ELSE
        LET budget == budgets[n]
            budgetNamespace ==
                IF budget.Namespace = "" THEN options.Namespace ELSE budget.Namespace
        IN IF LabelSelectorAsSelectorFails(budget.Selector)
           THEN [match |-> FALSE, comment |-> "", err |-> FailedToCreateSelector]
           ELSE IF ~SelectorMatches(budget.Selector, labels)
           THEN hasMatchingFrom(budgets, n + 1, namespace, labels, options,
                                hasNamespaceMismatch)
           ELSE IF budgetNamespace # namespace
           THEN hasMatchingFrom(budgets, n + 1, namespace, labels, options,
                                Append(hasNamespaceMismatch, budgetNamespace))
           ELSE [match |-> TRUE, comment |-> "", err |-> ""]

hasMatching(budgets, namespace, labels, options) ==
    hasMatchingFrom(budgets, 1,
                    IF namespace = "" THEN options.Namespace ELSE namespace,
                    labels, options, <<>>)

NoMatchingBudgetDescription ==
    "It's recommended to define a PodDisruptionBudget to avoid unexpected downtime during Kubernetes maintenance operations, such as when draining a node. "

\* the rule function statefulSetHas(budgets, options) applied to statefulset
statefulSetHas(budgets, options, statefulset) ==
    IF ~statefulset.Replicas.isNil /\ statefulset.Replicas.v < 2
    THEN Returned(AddComment([ZeroTestScore EXCEPT !.Skipped = TRUE], "",
                             "Skipped because the statefulset has less than 2 replicas", ""),
                  "")
    ELSE LET m == hasMatching(budgets, statefulset.Namespace,
                              statefulset.Template.Labels, options)
         IN IF m.err # "" THEN Returned(ZeroTestScore, m.err)
            ELSE IF m.match THEN Returned([ZeroTestScore EXCEPT !.Grade = GradeAllOK], "")
            ELSE Returned(AddComment([ZeroTestScore EXCEPT !.Grade = GradeCritical], "",
                                     "No matching PodDisruptionBudget was found",
                                     NoMatchingBudgetDescription \o m.comment),
                          "")

\* the rule function deploymentHas(budgets, options) applied to deployment
deploymentHas(budgets, options, deployment) ==
    IF ~deployment.Replicas.isNil /\ deployment.Replicas.v < 2
    THEN Returned(AddComment([ZeroTestScore EXCEPT !.Skipped = TRUE], "",
                             "Skipped because the deployment has less than 2 replicas", ""),
                  "")
    ELSE LET m == hasMatching(budgets, deployment.Namespace,
                              deployment.Template.Labels, options)
         IN IF m.err # "" THEN Returned(ZeroTestScore, m.err)
            ELSE IF m.match THEN Returned([ZeroTestScore EXCEPT !.Grade = GradeAllOK], "")
            ELSE Returned(AddComment([ZeroTestScore EXCEPT !.Grade = GradeCritical], "",
                                     "No matching PodDisruptionBudget was found",
                                     NoMatchingBudgetDescription \o m.comment),
                          "")

\* the rule function hasPolicy
hasPolicy(pdb) ==
    IF pdb.MinAvailable.isNil /\ pdb.MaxUnavailable.isNil
    THEN Returned([AddComment(ZeroTestScore, "", "PodDisruptionBudget missing policy",
                              "PodDisruptionBudget should specify minAvailable or maxUnavailable.")
                      EXCEPT !.Grade = GradeCritical], "")
    ELSE Returned([ZeroTestScore EXCEPT !.Grade = GradeAllOK], "")

(***************************************************************************)
(* Rule functions                                                          *)
(***************************************************************************)
\* a rule function that looks at nothing: it returns the error err, or
\* GradeAllOK when err is no error
StubFn(err) == [kind |-> "stub", err |-> err]

statefulSetHasFn(budgets, options) ==
    [kind |-> "statefulSetHas", budgets |-> budgets, options |-> options]

deploymentHasFn(budgets, options) ==
    [kind |-> "deploymentHas", budgets |-> budgets, options |-> options]

hasPolicyFn == [kind |-> "hasPolicy"]

\* test.Fn(o)
CallFn(fn, o) ==
    CASE fn.kind = "stub" ->
            IF fn.err = "" THEN Returned([ZeroTestScore EXCEPT !.Grade = GradeAllOK], "")
            ELSE Returned(ZeroTestScore, fn.err)
      [] fn.kind = "statefulSetHas" -> statefulSetHas(fn.budgets, fn.options, o)
      [] fn.kind = "deploymentHas" -> deploymentHas(fn.budgets, fn.options, o)
      [] fn.kind = "hasPolicy" -> hasPolicy(o)

(***************************************************************************)
(* score.RegisterAllChecks                                                 *)
(***************************************************************************)
RegisterCall(method, name, fn) == [method |-> method, name |-> name, fn |-> fn]

RuleFailed == "rule failed"

\* the Register calls of RegisterAllChecks in the order it makes them, for
\* one rule or more of each kind; failing names the rules whose function
\* returns an error
RegisterAllChecksCalls(objs, cfg, failing) ==
    LET stub(name) == StubFn(IF name \in failing THEN RuleFailed ELSE "")
        options == [Namespace |-> cfg.Namespace]
    IN << RegisterCall("RegisterIngressCheck", "Ingress targets Service",
                       stub("Ingress targets Service")),
          RegisterCall("RegisterCronJobCheck", "CronJob has deadline",
                       stub("CronJob has deadline")),
          RegisterCall("RegisterPodCheck", "Container Image Tag",
                       stub("Container Image Tag")),
          RegisterCall("RegisterOptionalPodCheck", "Container Ports Check",
                       stub("Container Ports Check")),
          RegisterCall("RegisterStatefulSetCheck", "StatefulSet has PodDisruptionBudget",
                       statefulSetHasFn(objs.PodDisruptionBudgets, options)),
          RegisterCall("RegisterDeploymentCheck", "Deployment has PodDisruptionBudget",
                       deploymentHasFn(objs.PodDisruptionBudgets, options)),
          RegisterCall("RegisterPodDisruptionBudgetCheck", "PodDisruptionBudget has policy",
                       hasPolicyFn),
          RegisterCall("RegisterNetworkPolicyCheck", "NetworkPolicy targets Pod",
                       stub("NetworkPolicy targets Pod")),
          RegisterCall("RegisterServiceCheck", "Service Type", stub("Service Type")),
          RegisterCall("RegisterMetaCheck", "Stable version", stub("Stable version")),
          RegisterCall("RegisterHorizontalPodAutoscalerCheck",
                       "HorizontalPodAutoscaler has target",
                       stub("HorizontalPodAutoscaler has target")) >>

\* RegisterAllChecks run to its end
RegisterAllChecks(objs, checksConfig, cfg, failing) ==
    RegisterFrom(New(checksConfig), RegisterAllChecksCalls(objs, cfg, failing), 1)

(***************************************************************************)
(* cmd/kube-score: from the options to the run configuration               *)
(***************************************************************************)
\* listToStructMap: the set of the items of the list
listToStructMap(items) == {items[n] : n \in 1..Len(items)}

\* parser.Empty(): no object of any kind
EmptyObjects ==
    [Ingresses |-> <<>>, Metas |-> <<>>, Pods |-> <<>>, PodSpeccers |-> <<>>,
     Services |-> <<>>, StatefulSets |-> <<>>, Deployments |-> <<>>,
     NetworkPolicies |-> <<>>, CronJobs |-> <<>>, HorizontalPodAutoscalers |-> <<>>,
     PodDisruptionBudgets |-> <<>>]

\* the config.RunConfiguration run() builds, before --all-default-optional
BaseRunConfiguration(o) ==
    [Namespace |-> o.namespace,
     SkipJobs |-> o.skipJobs,
     EnabledOptionalTests |-> listToStructMap(o.optionalTests),
     UseIgnoreChecksAnnotation |-> ~o.disableIgnoreChecksAnnotation,
     UseOptionalChecksAnnotation |-> ~o.disableOptionalChecksAnnotation]

\* the config.RunConfiguration of the run: --all-default-optional adds every
\* optional rule listed by All() whose id is not ignored
RunConfiguration(o) ==
    LET ignoredTests == listToStructMap(o.ignoreTests)
        base == BaseRunConfiguration(o)
        all == All(RegisterAllChecks(EmptyObjects, Config(ignoredTests), base, {}))
    IN IF o.allDefaultOptional
       THEN [base EXCEPT !.EnabledOptionalTests =
                @ \cup {all[n].ID : n \in {m \in 1..Len(all) :
                                             all[m].Optional /\ all[m].ID \notin ignoredTests}}]
       ELSE base

(***************************************************************************)
(* The parsed objects of a run                                             *)
(***************************************************************************)
NilInt == [isNil |-> TRUE, v |-> 0]

IntPtr(v) == [isNil |-> FALSE, v |-> v]

\* a parsed object: type meta, object meta and the parts of its spec the
\* modelled rules read
Object(kind, apiVersion, namespace, name) ==
    [Kind |-> kind, APIVersion |-> apiVersion, Namespace |-> namespace, Name |-> name,
     Annotations |-> NilMap, Labels |-> EmptyMap,
     Template |-> [Namespace |-> "", Annotations |-> NilMap, Labels |-> EmptyMap],
     Replicas |-> NilInt,
     Strategy |-> "",
     Selector |-> NilSelector,
     MinAvailable |-> NilInt,
     MaxUnavailable |-> NilInt]

SampleIngress == Object("Ingress", "networking.k8s.io/v1", "", "web")

SamplePod ==
    [Object("Pod", "v1", "", "worker") EXCEPT
        !.Annotations = MakeMap(ignoredChecksAnnotation :> "container-image-tag")]

SampleService == Object("Service", "v1", "", "web")

SampleNetworkPolicy == Object("NetworkPolicy", "networking.k8s.io/v1", "", "deny-all")

SampleCronJob ==
    [Object("CronJob", "batch/v1", "", "nightly") EXCEPT
        !.Template.Annotations = MakeMap(optionalChecksAnnotation :> "container-ports-check")]

SampleJob == Object("Job", "batch/v1", "", "migrate")

SampleHorizontalPodAutoscaler == Object("HorizontalPodAutoscaler", "autoscaling/v2", "", "web")

SampleStatefulSet ==
    [Object("StatefulSet", "apps/v1", "prod", "db") EXCEPT
        !.Template.Labels = ("app" :> "db"),
        !.Replicas = IntPtr(3)]

\* a Deployment without annotations and without a replica count
PlainDeployment ==
    [Object("Deployment", "apps/v1", "", "web") EXCEPT
        !.Template.Labels = ("app" :> "web")]

\* a Deployment that ignores the budget rule and a Pod rule, and whose pod
\* template enables an optional Pod rule
AnnotatedDeployment ==
    [PlainDeployment EXCEPT
        !.Annotations =
            MakeMap(ignoredChecksAnnotation
                        :> "deployment-has-poddisruptionbudget, container-image-tag"),
        !.Template.Annotations = MakeMap(optionalChecksAnnotation :> "container-ports-check"),
        !.Replicas = IntPtr(2)]

\* a Deployment of one replica
SingleDeployment == [PlainDeployment EXCEPT !.Replicas = IntPtr(1)]

SampleDeployments == {PlainDeployment, AnnotatedDeployment, SingleDeployment}

\* a budget for app=web in the default namespace
WebBudget ==
    [Object("PodDisruptionBudget", "policy/v1", "", "web-pdb") EXCEPT
        !.Selector = LabelSelector(("app" :> "web"), <<>>),
        !.MinAvailable = IntPtr(1)]

\* a budget whose selector LabelSelectorAsSelector rejects
BrokenBudget ==
    [Object("PodDisruptionBudget", "policy/v1", "", "broken-pdb") EXCEPT
        !.Selector = LabelSelector(EmptyMap, <<Requirement("app", "In", <<>>)>>),
        !.MaxUnavailable = IntPtr(1)]

\* a budget for app=db in another namespace than the StatefulSet's, without policy
StagingBudget ==
    [Object("PodDisruptionBudget", "policy/v1", "staging", "db-pdb") EXCEPT
        !.Selector = LabelSelector(EmptyMap, <<Requirement("app", "In", <<"db", "cache">>)>>)]

SampleBudgets == {WebBudget, BrokenBudget, StagingBudget}

\* the longest list of budgets of a run
MaxBudgets == 2

\* the lists of at most n budgets, no budget twice
RECURSIVE BudgetLists(_)
BudgetLists(n) ==
    IF n = 0 THEN {<<>>}
    ELSE LET shorter == BudgetLists(n - 1)
         IN shorter \cup
            {Append(p[1], p[2]) :
                p \in {q \in shorter \X SampleBudgets :
                          /\ Len(q[1]) = n - 1
                          /\ \A i \in 1..Len(q[1]) : q[1][i] # q[2]}}

\* what the parser hands over: every object in Metas, the pod template
\* bearing objects in PodSpeccers, and each object in the list of its kind
Objects(deployment, budgets) ==
    [Ingresses |-> <<SampleIngress>>,
     Metas |-> <<SampleIngress, SamplePod, deployment, SampleStatefulSet, SampleJob,
                 SampleCronJob, SampleService, SampleNetworkPolicy,
                 SampleHorizontalPodAutoscaler>> \o budgets,
     Pods |-> <<SamplePod>>,
     PodSpeccers |-> <<deployment, SampleStatefulSet, SampleJob, SampleCronJob>>,
     Services |-> <<SampleService>>,
     StatefulSets |-> <<SampleStatefulSet>>,
     Deployments |-> <<deployment>>,
     NetworkPolicies |-> <<SampleNetworkPolicy>>,
     CronJobs |-> <<SampleCronJob>>,
     HorizontalPodAutoscalers |-> <<SampleHorizontalPodAutoscaler>>,
     PodDisruptionBudgets |-> budgets]

SampleObjects ==
    {Objects(d, b) : d \in SampleDeployments, b \in BudgetLists(MaxBudgets)}

\* the command line options of a run
Options(ignoreTests, optionalTests, allOptional, skipJobs, disableAnnotations, namespace) ==
    [ignoreTests |-> ignoreTests, optionalTests |-> optionalTests,
     allDefaultOptional |-> allOptional, skipJobs |-> skipJobs,
     disableIgnoreChecksAnnotation |-> disableAnnotations,
     disableOptionalChecksAnnotation |-> disableAnnotations,
     namespace |-> namespace]

SampleOptions ==
    { Options(<<>>, <<>>, FALSE, FALSE, FALSE, ""),
      Options(<<"deployment-has-poddisruptionbudget", "container-ports-check">>,
              <<"container-ports-check">>, FALSE, FALSE, FALSE, "prod"),
      Options(<<"container-image-tag">>, <<>>, TRUE, TRUE, FALSE, ""),
      Options(<<"statefulset-has-poddisruptionbudget", "stable-version">>,
              <<"container-ports-check">>, FALSE, TRUE, FALSE, "staging"),
      Options(<<"cronjob-has-deadline", "container-ports-check", "stable-version">>,
              <<>>, TRUE, FALSE, TRUE, ""),
      Options(<<"stable-version", "container-image-tag", "poddisruptionbudget-has-policy">>,
              <<"container-image-tag">>, FALSE, FALSE, TRUE, "prod") }

\* the sets of rules whose function returns an error
SampleFailing == { {}, {"Container Image Tag"}, {"CronJob has deadline", "Container Ports Check"} }

(***************************************************************************)
(* scorecard: the Scorecard and its ScoredObjects                          *)
(***************************************************************************)
\* the key of an object in the Scorecard
resourceRefKey(o) == o.Kind \o "/" \o o.APIVersion \o "/" \o o.Namespace \o "/" \o o.Name

\* the settings a ScoredObject takes from the run configuration
ScoredObjectSettings(cfg) ==
    [useIgnoreChecksAnnotation |-> cfg.UseIgnoreChecksAnnotation,
     useOptionalChecksAnnotation |-> cfg.UseOptionalChecksAnnotation,
     enabledOptionalTests |-> cfg.EnabledOptionalTests]

\* Scorecard.NewObject: the entry of the object, created unless it exists
NewObject(card, o, cfg) ==
    IF resourceRefKey(o) \in DOMAIN card THEN card
    ELSE (resourceRefKey(o) :>
            [Kind |-> o.Kind, APIVersion |-> o.APIVersion, Namespace |-> o.Namespace,
             Name |-> o.Name, Checks |-> <<>>, settings |-> ScoredObjectSettings(cfg)])
         @@ card

\* ScoredObject.Add: append the result, marked skipped when the enablement
\* policy says the rule does not run on the object
Add(card, key, ts, c, ann, child) ==
    LET skip == ~isEnabled(card[key].settings, c, ann, child)
        scored == [Check |-> c, Grade |-> ts.Grade, Skipped |-> ts.Skipped,
                   Comments |-> ts.Comments]
        saved == IF skip
                 THEN [scored EXCEPT
                          !.Skipped = TRUE,
                          !.Comments = <<[Path |-> "",
                                          Summary |-> "Skipped because " \o c.ID \o " is ignored",
                                          Description |-> ""]>>]
                 ELSE scored
    IN [card EXCEPT ![key].Checks = Append(@, saved)]

(***************************************************************************)
(* score.Score                                                             *)
(***************************************************************************)
\* the eleven loops of Score in program order: the list of objects ranged
\* over, the map of rules ranged over for each object, whether an error of
\* the rule function is returned, and whether the pod template's annotations
\* are handed to Add
ScoreLoop(list, mp, propagate, template) ==
    [list |-> list, mp |-> mp, propagate |-> propagate, template |-> template]

\* Score with the StatefulSets loop ranging over the map of Deployment rules
ScoreLoops_StatefulSetsRunDeploymentRules ==
    << ScoreLoop("Ingresses", "ingresses", TRUE, FALSE),
       ScoreLoop("Metas", "metas", TRUE, FALSE),
       ScoreLoop("Pods", "pods", FALSE, FALSE),
       ScoreLoop("PodSpeccers", "pods", FALSE, TRUE),
       ScoreLoop("Services", "services", TRUE, FALSE),
       ScoreLoop("StatefulSets", "deployments", TRUE, FALSE),
       ScoreLoop("Deployments", "deployments", TRUE, FALSE),
       ScoreLoop("NetworkPolicies", "networkpolicies", TRUE, FALSE),
       ScoreLoop("CronJobs", "cronjobs", TRUE, FALSE),
       ScoreLoop("HorizontalPodAutoscalers", "horizontalPodAutoscalers", TRUE, FALSE),
       ScoreLoop("PodDisruptionBudgets", "poddisruptionbudgets", TRUE, FALSE) >>

\* Score with the Services loop ahead of the two loops over the Pod rules
ScoreLoops_ServicesBeforePods ==
    << ScoreLoop("Ingresses", "ingresses", TRUE, FALSE),
       ScoreLoop("Metas", "metas", TRUE, FALSE),
       ScoreLoop("Services", "services", TRUE, FALSE),
       ScoreLoop("Pods", "pods", FALSE, FALSE),
       ScoreLoop("PodSpeccers", "pods", FALSE, TRUE),
       ScoreLoop("StatefulSets", "statefulsets", TRUE, FALSE),
       ScoreLoop("Deployments", "deployments", TRUE, FALSE),
       ScoreLoop("NetworkPolicies", "networkpolicies", TRUE, FALSE),
       ScoreLoop("CronJobs", "cronjobs", TRUE, FALSE),
       ScoreLoop("HorizontalPodAutoscalers", "horizontalPodAutoscalers", TRUE, FALSE),
       ScoreLoop("PodDisruptionBudgets", "poddisruptionbudgets", TRUE, FALSE) >>

ScoreLoops ==
    << ScoreLoop("Ingresses", "ingresses", TRUE, FALSE),
       ScoreLoop("Metas", "metas", TRUE, FALSE),
       ScoreLoop("Pods", "pods", FALSE, FALSE),
       ScoreLoop("PodSpeccers", "pods", FALSE, TRUE),
       ScoreLoop("Services", "services", TRUE, FALSE),
       ScoreLoop("StatefulSets", "statefulsets", TRUE, FALSE),
       ScoreLoop("Deployments", "deployments", TRUE, FALSE),
       ScoreLoop("NetworkPolicies", "networkpolicies", TRUE, FALSE),
       ScoreLoop("CronJobs", "cronjobs", TRUE, FALSE),
       ScoreLoop("HorizontalPodAutoscalers", "horizontalPodAutoscalers", TRUE, FALSE),
       ScoreLoop("PodDisruptionBudgets", "poddisruptionbudgets", TRUE, FALSE) >>

\* the `continue' at the head of the PodSpeccers and the CronJobs loop
SkipsObject(l, o, cfg) ==
    \/ l.list = "PodSpeccers" /\ o.Kind = "Job" /\ cfg.SkipJobs
    \/ l.list = "CronJobs" /\ cfg.SkipJobs

\* the first object at or after position i of loop l, or of a later loop;
\* beyond the last loop when there is none
RECURSIVE NextPosition(_, _, _)
NextPosition(objs, l, i) ==
    IF l > Len(ScoreLoops) THEN [loop |-> l, idx |-> 1]
    ELSE IF i <= Len(objs[ScoreLoops[l].list]) THEN [loop |-> l, idx |-> i]
    ELSE NextPosition(objs, l + 1, 1)

\* the podSpeccer the Pods loop builds from a Pod: the Pod's object meta is
\* the meta of its pod template
PodSpeccerOf(l, o) ==
    IF l.list = "Pods"
    THEN [o EXCEPT !.Template.Namespace = o.Namespace,
                   !.Template.Annotations = o.Annotations,
                   !.Template.Labels = o.Labels]
    ELSE o

\* the pod template's annotations, in the loop that hands them to Add
ChildAnnotations(l, o) == IF l.template THEN o.Template.Annotations ELSE NilMap

\* one RegisterXCheck call of RegisterAllChecks
RegisterNext ==
    /\ pc = "register"
    /\ nreg < Len(registrations)
    /\ allChecks' = Register(allChecks, registrations[nreg + 1])
    /\ nreg' = nreg + 1
    /\ UNCHANGED <<opts, allObjects, registrations, runConfig, pc, loop, idx, pending,
                   calls, scoreCard, result>>
    /\ UNCHANGED enabledVars
    /\ UNCHANGED ruleVars
    /\ UNCHANGED registryVars
    /\ UNCHANGED skipVars

\* RegisterAllChecks returned; Score starts with an empty Scorecard
CallScore ==
    /\ pc = "register"
    /\ nreg = Len(registrations)
    /\ pc' = "score"
    /\ scoreCard' = EmptyChecks
    /\ loop' = NextPosition(allObjects, 1, 1).loop
    /\ idx' = NextPosition(allObjects, 1, 1).idx
    /\ UNCHANGED <<opts, allObjects, registrations, allChecks, runConfig, nreg, pending,
                   calls, result>>
    /\ UNCHANGED enabledVars
    /\ UNCHANGED ruleVars
    /\ UNCHANGED registryVars
    /\ UNCHANGED skipVars

\* the head of a loop body: `continue', or newObject and the range over the
\* map of rules
VisitObject ==
    /\ pc = "score"
    /\ pending = {}
    /\ loop <= Len(ScoreLoops)
    /\ LET l == ScoreLoops[loop]
           o == allObjects[l.list][idx]
           tests == DOMAIN allChecks[l.mp]
           skipped == SkipsObject(l, o, runConfig)
           next == NextPosition(allObjects, loop, idx + 1)
       IN /\ scoreCard' = IF skipped THEN scoreCard ELSE NewObject(scoreCard, o, runConfig)
          /\ pending' = IF skipped THEN {} ELSE tests
          /\ loop' = IF skipped \/ tests = {} THEN next.loop ELSE loop
          /\ idx' = IF skipped \/ tests = {} THEN next.idx ELSE idx
    /\ UNCHANGED <<opts, allObjects, registrations, allChecks, runConfig, pc, nreg, calls,
                   result>>
    /\ UNCHANGED enabledVars
    /\ UNCHANGED ruleVars
    /\ UNCHANGED registryVars
    /\ UNCHANGED skipVars

\* the body of the range over the map of rules for the entry id, the object
\* at position i of loop lp and the Scorecard card: test.Fn, then the return
\* of its error or o.Add
RangeStep(lp, i, id, card) ==
    LET l == ScoreLoops[lp]
        o == allObjects[l.list][i]
        test == allChecks[l.mp][id]
        out == CallFn(test.Fn, PodSpeccerOf(l, o))
        aborts == out.err # "" /\ l.propagate
    IN [aborts |-> aborts, err |-> out.err,
        card |-> IF aborts THEN card
                 ELSE Add(card, resourceRefKey(o), out.score, test.Check, o.Annotations,
                          ChildAnnotations(l, o))]

\* one iteration of the range over the map of rules: test.Fn, then the
\* return of its error or o.Add
RunCheck(id) ==
    /\ pc = "score"
    /\ id \in pending
    /\ LET l == ScoreLoops[loop]
           o == allObjects[l.list][idx]
           test == allChecks[l.mp][id]
           out == CallFn(test.Fn, PodSpeccerOf(l, o))
           key == resourceRefKey(o)
           child == ChildAnnotations(l, o)
           next == NextPosition(allObjects, loop, idx + 1)
           aborts == out.err # "" /\ l.propagate
           last == pending = {id}
       IN /\ calls' = Append(calls,
                        [ID |-> test.Check.ID, TargetType |-> test.Check.TargetType,
                         mp |-> l.mp, list |-> l.list, loop |-> loop, idx |-> idx, key |-> key,
                         kind |-> o.Kind,
                         enabled |-> isEnabled(scoreCard[key].settings, test.Check,
                                               o.Annotations, child),
                         fn |-> test.Fn.kind, score |-> out.score, err |-> out.err])
          /\ pc' = IF aborts THEN "done" ELSE pc
          /\ result' = IF aborts
                       THEN [returned |-> TRUE, hasScoreCard |-> FALSE, err |-> out.err]
                       ELSE result
          /\ scoreCard' = RangeStep(loop, idx, id, scoreCard).card
          /\ pending' = IF aborts THEN pending ELSE pending \ {id}
          /\ loop' = IF ~aborts /\ last THEN next.loop ELSE loop
          /\ idx' = IF ~aborts /\ last THEN next.idx ELSE idx
    /\ UNCHANGED <<opts, allObjects, registrations, allChecks, runConfig, nreg>>
    /\ UNCHANGED enabledVars
    /\ UNCHANGED ruleVars
    /\ UNCHANGED registryVars
    /\ UNCHANGED skipVars

\* the end of Score: return &scoreCard, nil
Return ==
    /\ pc = "score"
    /\ pending = {}
    /\ loop > Len(ScoreLoops)
    /\ pc' = "done"
    /\ result' = [returned |-> TRUE, hasScoreCard |-> TRUE, err |-> ""]
    /\ UNCHANGED <<opts, allObjects, registrations, allChecks, runConfig, nreg, loop, idx,
                   pending, calls, scoreCard>>
    /\ UNCHANGED enabledVars
    /\ UNCHANGED ruleVars
    /\ UNCHANGED registryVars
    /\ UNCHANGED skipVars

\* run(): the options, the parsed objects, the run configuration and the
\* empty registry RegisterAllChecks starts from
Init ==
    /\ check = MandatoryCheck
    /\ annotations = NilMap
    /\ childAnnotations = NilMap
    /\ so = [useIgnoreChecksAnnotation |-> TRUE, useOptionalChecksAnnotation |-> TRUE,
             enabledOptionalTests |-> {}]
    /\ ret = NotCalled
    /\ opts \in SampleOptions
    /\ allObjects \in SampleObjects
    /\ runConfig = RunConfiguration(opts)
    /\ registrations \in {RegisterAllChecksCalls(allObjects, runConfig, f) : f \in SampleFailing}
    /\ allChecks = New(Config(listToStructMap(opts.ignoreTests)))
    /\ pc = "register"
    /\ nreg = 0
    /\ loop = 0
    /\ idx = 0
    /\ pending = {}
    /\ calls = <<>>
    /\ scoreCard = EmptyChecks
    /\ result = NotReturned
    /\ RuleIdle
    /\ RegistryIdle
    /\ SkipIdle

Next ==
    \/ RegisterNext
    \/ CallScore
    \/ VisitObject
    \/ \E id \in pending : RunCheck(id)
    \/ Return

Spec == Init /\ [][Next]_vars

(***************************************************************************)
(* The registry on its own: registrations against one kind, then All()     *)
(***************************************************************************)
\* names of rules, two of them with the same machine friendly name
SampleRuleNames == {"Container Image Tag", "container image tag", "Pod Probes"}

\* the Register methods of a kind
SampleKindMethods ==
    { {"RegisterPodCheck", "RegisterOptionalPodCheck"},
      {"RegisterDeploymentCheck", "RegisterOptionalDeploymentCheck"} }

\* the most registrations made before All() is called
MaxRegistrations == 3

\* the lists of registrations against one kind
SampleRegistrations ==
    UNION { ListsUpTo({RegisterCall(m, name, StubFn("")) : m \in methods, name \in SampleRuleNames},
                      MaxRegistrations) : methods \in SampleKindMethods }

\* a fresh registry and the registrations to make
InitRegistry ==
    /\ EnabledIdle
    /\ RuleIdle
    /\ RegistryIdle
    /\ SkipIdle
    /\ opts = <<>>
    /\ allObjects = <<>>
    /\ runConfig = <<>>
    /\ registrations \in SampleRegistrations
    /\ allChecks \in {New(cnf) : cnf \in {NilConfig, Config({"pod-probes"})}}
    /\ pc = "register"
    /\ nreg = 0
    /\ loop = 0
    /\ idx = 0
    /\ pending = {}
    /\ calls = <<>>
    /\ scoreCard = <<>>
    /\ result = NotReturned

\* the call of All() after the last registration
CallAll ==
    /\ pc = "register"
    /\ nreg = Len(registrations)
    /\ ~listed.called
    /\ listed' = [called |-> TRUE, value |-> All(allChecks)]
    /\ UNCHANGED <<enabledVars, scoreVars, ruleVars, skipVars>>

NextRegistry ==
    \/ RegisterNext
    \/ CallAll

SpecRegistry == InitRegistry /\ [][NextRegistry]_vars

(***************************************************************************)
(* score/networkpolicy                                                     *)
(***************************************************************************)
PolicyTypeIngress == "Ingress"

PolicyTypeEgress == "Egress"

\* a networkingv1.NetworkPolicy: its pod selector is a value, never nil;
\* egress is the number of egress rules
NetworkPolicy(namespace, name, podSelector, policyTypes, egress) ==
    [Kind |-> "NetworkPolicy", Namespace |-> namespace, Name |-> name,
     PodSelector |-> podSelector, PolicyTypes |-> policyTypes, Egress |-> egress]

\* the test of one policy in the loop of podHasNetworkPolicy: same
\* namespace as the pod template, a selector that parses, labels that match
netPolMatchesPod(netPol, pod, options) ==
    LET podNamespace == IF pod.Namespace = "" THEN options.Namespace ELSE pod.Namespace
        netPolNamespace ==
            IF netPol.Namespace = "" THEN options.Namespace ELSE netPol.Namespace
    IN /\ podNamespace = netPolNamespace
       /\ ~LabelSelectorAsSelectorFails(netPol.PodSelector)
       /\ SelectorMatches(netPol.PodSelector, pod.Labels)

\* podHasNetworkPolicy with a policy without policyTypes covering egress always
podHasNetworkPolicy_EgressWithoutRules(allNetpols, options, ps) ==
    LET pod == ps.Template
        matching == {n \in 1..Len(allNetpols) : netPolMatchesPod(allNetpols[n], pod, options)}
        hasMatchingIngressNetpol ==
            \E n \in matching :
                \/ Len(allNetpols[n].PolicyTypes) = 0
                \/ \E t \in 1..Len(allNetpols[n].PolicyTypes) :
                      allNetpols[n].PolicyTypes[t] = PolicyTypeIngress
        hasMatchingEgressNetpol ==
            \E n \in matching :
                IF Len(allNetpols[n].PolicyTypes) = 0 THEN TRUE
                ELSE \E t \in 1..Len(allNetpols[n].PolicyTypes) :
                        allNetpols[n].PolicyTypes[t] = PolicyTypeEgress
    IN IF hasMatchingEgressNetpol /\ hasMatchingIngressNetpol
       THEN Returned([ZeroTestScore EXCEPT !.Grade = GradeAllOK], "")
       ELSE IF hasMatchingEgressNetpol /\ ~hasMatchingIngressNetpol
       THEN Returned(AddComment([ZeroTestScore EXCEPT !.Grade = GradeWarning], "",
                                "The pod does not have a matching ingress NetworkPolicy",
                                "Add a ingress policy to the pods NetworkPolicy"), "")
       ELSE IF hasMatchingIngressNetpol /\ ~hasMatchingEgressNetpol
       THEN Returned(AddComment([ZeroTestScore EXCEPT !.Grade = GradeWarning], "",
                                "The pod does not have a matching egress NetworkPolicy",
                                "Add a egress policy to the pods NetworkPolicy"), "")
       ELSE Returned(AddComment([ZeroTestScore EXCEPT !.Grade = GradeCritical], "",
                                "The pod does not have a matching NetworkPolicy",
                                "Create a NetworkPolicy that targets this pod to control who/what can communicate with this pod. Note, this feature needs to be supported by the CNI implementation used in the Kubernetes cluster to have an effect."),
                     "")

\* the rule function podHasNetworkPolicy(allNetpols, options) applied to ps
podHasNetworkPolicy(allNetpols, options, ps) ==
    LET pod == ps.Template
        matching == {n \in 1..Len(allNetpols) : netPolMatchesPod(allNetpols[n], pod, options)}
        hasMatchingIngressNetpol ==
            \E n \in matching :
                \/ Len(allNetpols[n].PolicyTypes) = 0
                \/ \E t \in 1..Len(allNetpols[n].PolicyTypes) :
                      allNetpols[n].PolicyTypes[t] = PolicyTypeIngress
        hasMatchingEgressNetpol ==
            \E n \in matching :
                IF Len(allNetpols[n].PolicyTypes) = 0 THEN allNetpols[n].Egress > 0
                ELSE \E t \in 1..Len(allNetpols[n].PolicyTypes) :
                        allNetpols[n].PolicyTypes[t] = PolicyTypeEgress
    IN IF hasMatchingEgressNetpol /\ hasMatchingIngressNetpol
       THEN Returned([ZeroTestScore EXCEPT !.Grade = GradeAllOK], "")
       ELSE IF hasMatchingEgressNetpol /\ ~hasMatchingIngressNetpol
       THEN Returned(AddComment([ZeroTestScore EXCEPT !.Grade = GradeWarning], "",
                                "The pod does not have a matching ingress NetworkPolicy",
                                "Add a ingress policy to the pods NetworkPolicy"), "")
       ELSE IF hasMatchingIngressNetpol /\ ~hasMatchingEgressNetpol
       THEN Returned(AddComment([ZeroTestScore EXCEPT !.Grade = GradeWarning], "",
                                "The pod does not have a matching egress NetworkPolicy",
                                "Add a egress policy to the pods NetworkPolicy"), "")
       ELSE Returned(AddComment([ZeroTestScore EXCEPT !.Grade = GradeCritical], "",
                                "The pod does not have a matching NetworkPolicy",
                                "Create a NetworkPolicy that targets this pod to control who/what can communicate with this pod. Note, this feature needs to be supported by the CNI implementation used in the Kubernetes cluster to have an effect."),
                     "")

(***************************************************************************)
(* score/hpa, score/deployment, score/apps: who references a Deployment    *)
(***************************************************************************)
\* strings.EqualFold on the letters the model uses
EqualFold(s, t) == ToLower(s) = ToLower(t)

\* ptr.Deref(p, def)
Deref(p, def) == IF p.isNil THEN def ELSE p.v

\* autoscalingv1.CrossVersionObjectReference
CrossVersionObjectReference(apiVersion, kind, name) ==
    [APIVersion |-> apiVersion, Kind |-> kind, Name |-> name]

\* a domain.HpaTargeter
HpaTargeter(namespace, name, target) ==
    [Kind |-> "HorizontalPodAutoscaler", APIVersion |-> "autoscaling/v2",
     Namespace |-> namespace, Name |-> name, HpaTarget |-> target]

\* a corev1.Service, of which the rules read the selector
Service(namespace, name, selector) ==
    [Kind |-> "Service", APIVersion |-> "v1", Namespace |-> namespace, Name |-> name,
     Selector |-> selector, Ports |-> <<>>, Type |-> ""]

\* LabelSelectorMatchesLabels that is content with one pair of the selector
LabelSelectorMatchesLabels_AnyPair(selectorLabels, labels) ==
    LET labelSelector == LabelSelector(selectorLabels, <<>>)
    IN IF LabelSelectorAsSelectorFails(labelSelector) THEN FALSE
       ELSE \/ DOMAIN selectorLabels = {}
            \/ \E k \in DOMAIN selectorLabels :
                  k \in DOMAIN labels /\ labels[k] = selectorLabels[k]

\* internal.LabelSelectorMatchesLabels
LabelSelectorMatchesLabels(selectorLabels, labels) ==
    LET labelSelector == LabelSelector(selectorLabels, <<>>)
    IN IF LabelSelectorAsSelectorFails(labelSelector) THEN FALSE
       ELSE SelectorMatches(labelSelector, labels)

\* the test of one targetable object in the loop of hpaHasTarget
hpaTargets(targetRef, hpa, t, options) ==
    LET hpaNamespace == IF hpa.Namespace = "" THEN options.Namespace ELSE hpa.Namespace
        namespace == IF t.Namespace = "" THEN options.Namespace ELSE t.Namespace
    IN /\ t.APIVersion = targetRef.APIVersion
       /\ t.Kind = targetRef.Kind
       /\ t.Name = targetRef.Name
       /\ namespace = hpaNamespace

\* the rule function hpaHasTarget(options) applied to hpa
hpaHasTarget(options, hpa) ==
    LET targetRef == hpa.HpaTarget
        hasTarget == \E n \in 1..Len(options.AllTargetableObjs) :
                        hpaTargets(targetRef, hpa, options.AllTargetableObjs[n], options)
    IN IF hasTarget THEN Returned([ZeroTestScore EXCEPT !.Grade = GradeAllOK], "")
       ELSE Returned(AddComment([ZeroTestScore EXCEPT !.Grade = GradeCritical], "",
                                "The HPA target does not match anything", ""), "")

\* the map svcsInNamespace of deploymentReplicas at one namespace: the
\* selectors of the Services of the namespace, in the order of the list
svcsInNamespace(svcs, options, namespace) ==
    LET inNamespace(s) ==
            (IF s.Namespace = "" THEN options.Namespace ELSE s.Namespace) = namespace
        kept == SelectSeq(svcs, inNamespace)
    IN [n \in 1..Len(kept) |-> kept[n].Selector]

\* the map hpasInNamespace of deploymentReplicas at one namespace
hpasInNamespace(hpas, options, namespace) ==
    LET inNamespace(h) ==
            (IF h.Namespace = "" THEN options.Namespace ELSE h.Namespace) = namespace
        kept == SelectSeq(hpas, inNamespace)
    IN [n \in 1..Len(kept) |-> kept[n].HpaTarget]

\* the rule function deploymentReplicas(svcs, hpas, options) applied to deployment
deploymentReplicas(svcs, hpas, options, deployment) ==
    LET deploymentNamespace ==
            IF deployment.Namespace = "" THEN options.Namespace ELSE deployment.Namespace
        selectors == svcsInNamespace(svcs, options, deploymentNamespace)
        targets == hpasInNamespace(hpas, options, deploymentNamespace)
        referencedByService ==
            \E n \in 1..Len(selectors) :
                LabelSelectorMatchesLabels(selectors[n], deployment.Template.Labels)
        hasHPA ==
            \E n \in 1..Len(targets) :
                /\ deployment.APIVersion = targets[n].APIVersion
                /\ deployment.Kind = targets[n].Kind
                /\ deployment.Name = targets[n].Name
    IN IF ~referencedByService
       THEN Returned(AddComment([ZeroTestScore EXCEPT !.Skipped = TRUE], "",
                                "Skipped as the Deployment is not targeted by service", ""), "")
       ELSE IF hasHPA
       THEN Returned(AddComment([ZeroTestScore EXCEPT !.Skipped = TRUE], "",
                                "Skipped as the Deployment is controlled by a HorizontalPodAutoscaler",
                                ""), "")
       ELSE IF Deref(deployment.Replicas, 1) >= 2
       THEN Returned([ZeroTestScore EXCEPT !.Grade = GradeAllOK], "")
       ELSE Returned(AddComment([ZeroTestScore EXCEPT !.Grade = GradeWarning], "",
                                "Deployment few replicas",
                                "Deployments targeted by Services are recommended to have at least 2 replicas to prevent unwanted downtime."),
                     "")

\* the test of one HPA in the loop of hpaDeploymentNoReplicas
hpaTargetsDeployment(hpa, deployment, options) ==
    LET target == hpa.HpaTarget
        hpaNamespace == IF hpa.Namespace = "" THEN options.Namespace ELSE hpa.Namespace
        deploymentNamespace ==
            IF deployment.Namespace = "" THEN options.Namespace ELSE deployment.Namespace
    IN /\ hpaNamespace = deploymentNamespace
       /\ EqualFold(target.Kind, deployment.Kind)
       /\ target.Name = deployment.Name

\* the rule function hpaDeploymentNoReplicas(allHPAs, options) applied to deployment
hpaDeploymentNoReplicas(allHPAs, options, deployment) ==
    IF \E n \in 1..Len(allHPAs) : hpaTargetsDeployment(allHPAs[n], deployment, options)
    THEN IF deployment.Replicas.isNil
         THEN Returned([ZeroTestScore EXCEPT !.Grade = GradeAllOK], "")
         ELSE Returned(AddComment([ZeroTestScore EXCEPT !.Grade = GradeCritical], "",
                                  "The deployment is targeted by a HPA, but a static replica count is configured in the DeploymentSpec",
                                  "When replicas are both statically set and managed by the HPA, the replicas will be changed to the statically configured count when the spec is applied, even if the HPA wants the replica count to be higher."),
                       "")
    ELSE Returned(AddComment([ZeroTestScore EXCEPT !.Grade = GradeAllOK, !.Skipped = TRUE], "",
                             "Skipped because the deployment is not targeted by a HorizontalPodAutoscaler",
                             ""), "")

(***************************************************************************)
(* score/ingress                                                           *)
(***************************************************************************)
\* fmt's %d of a number that is not negative
RECURSIVE Itoa(_)
Itoa(n) ==
    LET digit == SubSeq("0123456789", (n % 10) + 1, (n % 10) + 1)
    IN IF n < 10 THEN digit ELSE Itoa(n \div 10) \o digit

\* corev1.ServicePort
ServicePort(port, name) == [Port |-> port, Name |-> name]

\* a Service with the ports of its spec
ServiceWithPorts(namespace, name, ports) ==
    [Service(namespace, name, EmptyMap) EXCEPT !.Ports = ports]

\* the Service of path.Backend when the path has none
NilBackendService == [isNil |-> TRUE, Name |-> "", Port |-> [Number |-> 0, Name |-> ""]]

\* networkingv1.IngressServiceBackend
IngressServiceBackend(name, number, portName) ==
    [isNil |-> FALSE, Name |-> name, Port |-> [Number |-> number, Name |-> portName]]

\* networkingv1.HTTPIngressPath
HTTPIngressPath(path, backendService) == [Path |-> path, Backend |-> [Service |-> backendService]]

\* rule.IngressRuleValue.HTTP of a rule without HTTP
NilHTTP == [isNil |-> TRUE, Paths |-> <<>>]

\* networkingv1.IngressRule
IngressRule(paths) == [HTTP |-> [isNil |-> FALSE, Paths |-> paths]]

\* an Ingress with the rules of its spec
Ingress(namespace, name, rules) ==
    [Kind |-> "Ingress", APIVersion |-> "networking.k8s.io/v1", Namespace |-> namespace,
     Name |-> name, Rules |-> rules]

\* the loop over service.Spec.Ports: whether one port sets pathHasMatch
servicePortsMatch(service, path) ==
    \E p \in 1..Len(service.Ports) :
        IF path.Backend.Service.Port.Number > 0
           /\ service.Ports[p].Port = path.Backend.Service.Port.Number
        THEN TRUE
        ELSE service.Ports[p].Name = path.Backend.Service.Port.Name

\* the loop over allServices: pathHasMatch of one path
pathHasMatch(ingress, path, allServices, options) ==
    \E s \in 1..Len(allServices) :
        LET service == allServices[s]
            serviceNamespace ==
                IF service.Namespace = "" THEN options.Namespace ELSE service.Namespace
            ingressNamespace ==
                IF ingress.Namespace = "" THEN options.Namespace ELSE ingress.Namespace
        IN /\ serviceNamespace = ingressNamespace
           /\ ~path.Backend.Service.isNil
           /\ service.Name = path.Backend.Service.Name
           /\ servicePortsMatch(service, path)

\* the comment of a path without a match
noServiceMatch(score, path) ==
    IF ~path.Backend.Service.isNil
    THEN IF path.Backend.Service.Port.Number > 0
         THEN AddComment(score, path.Path, "No service match was found",
                         "No service with name " \o path.Backend.Service.Name
                         \o " and port number " \o Itoa(path.Backend.Service.Port.Number)
                         \o " was found")
         ELSE AddComment(score, path.Path, "No service match was found",
                         "No service with name " \o path.Backend.Service.Name
                         \o " and port named " \o path.Backend.Service.Port.Name
                         \o " was found")
    ELSE AddComment(score, path.Path, "No service match was found", "")

\* the paths the two loops of ingressTargetsServiceCommon visit, in order
RECURSIVE httpPaths(_, _)
httpPaths(rules, r) ==
    IF r > Len(rules) THEN <<>>
    ELSE (IF rules[r].HTTP.isNil THEN <<>> ELSE rules[r].HTTP.Paths) \o httpPaths(rules, r + 1)

\* the score after the paths from paths[n] on
RECURSIVE ingressPathsFrom(_, _, _, _, _, _)
ingressPathsFrom(ingress, paths, n, allServices, options, score) ==
    IF n > Len(paths) THEN score
    ELSE ingressPathsFrom(ingress, paths, n + 1, allServices, options,
            IF pathHasMatch(ingress, paths[n], allServices, options)
            THEN score
            ELSE noServiceMatch(score, paths[n]))

\* ingressTargetsServiceCommon
ingressTargetsServiceCommon(ingress, allServices, options) ==
    LET paths == httpPaths(ingress.Rules, 1)
        allRulesHaveMatches ==
            \A n \in 1..Len(paths) : pathHasMatch(ingress, paths[n], allServices, options)
        score == ingressPathsFrom(ingress, paths, 1, allServices, options, ZeroTestScore)
    IN Returned([score EXCEPT !.Grade =
                    IF allRulesHaveMatches THEN GradeAllOK ELSE GradeCritical], "")

\* appsv1.RollingUpdateDeploymentStrategyType
RollingUpdateDeploymentStrategyType == "RollingUpdate"

\* appsv1.RecreateDeploymentStrategyType
RecreateDeploymentStrategyType == "Recreate"

\* TestScore.AddCommentWithURL
AddCommentWithURL(ts, path, summary, description, documentationURL) ==
    [ts EXCEPT !.Comments =
        Append(@, [Path |-> path, Summary |-> summary, Description |-> description,
                   DocumentationURL |-> documentationURL])]

\* deploymentRolloutStrategy in which an unset strategy type is not RollingUpdate
deploymentRolloutStrategy_UnsetIsNotRolling(svcs, options, deployment) ==
    LET deploymentNamespace ==
            IF deployment.Namespace = "" THEN options.Namespace ELSE deployment.Namespace
        selectors == svcsInNamespace(svcs, options, deploymentNamespace)
        referencedByService ==
            \E n \in 1..Len(selectors) :
                LabelSelectorMatchesLabels(selectors[n], deployment.Template.Labels)
    IN IF referencedByService
       THEN IF deployment.Strategy = RollingUpdateDeploymentStrategyType
            THEN Returned([ZeroTestScore EXCEPT !.Grade = GradeAllOK], "")
            ELSE Returned(AddCommentWithURL([ZeroTestScore EXCEPT !.Grade = GradeWarning], "",
                              "Deployment update strategy",
                              "The deployment is used by a service but not using the RollingUpdate strategy which can cause interruptions. Set .spec.strategy.type to RollingUpdate.",
                              "https://kubernetes.io/docs/concepts/workloads/controllers/deployment/#strategy"),
                          "")
       ELSE Returned(AddComment([ZeroTestScore EXCEPT !.Skipped = TRUE], "",
                                "Skipped as the Deployment is not targeted by a service", ""), "")

\* the rule function deploymentRolloutStrategy(svcs, options) applied to deployment
deploymentRolloutStrategy(svcs, options, deployment) ==
    LET deploymentNamespace ==
            IF deployment.Namespace = "" THEN options.Namespace ELSE deployment.Namespace
        selectors == svcsInNamespace(svcs, options, deploymentNamespace)
        referencedByService ==
            \E n \in 1..Len(selectors) :
                LabelSelectorMatchesLabels(selectors[n], deployment.Template.Labels)
    IN IF referencedByService
       THEN IF \/ deployment.Strategy = RollingUpdateDeploymentStrategyType
               \/ deployment.Strategy = ""
            THEN Returned([ZeroTestScore EXCEPT !.Grade = GradeAllOK], "")
            ELSE Returned(AddCommentWithURL([ZeroTestScore EXCEPT !.Grade = GradeWarning], "",
                              "Deployment update strategy",
                              "The deployment is used by a service but not using the RollingUpdate strategy which can cause interruptions. Set .spec.strategy.type to RollingUpdate.",
                              "https://kubernetes.io/docs/concepts/workloads/controllers/deployment/#strategy"),
                          "")
       ELSE Returned(AddComment([ZeroTestScore EXCEPT !.Skipped = TRUE], "",
                                "Skipped as the Deployment is not targeted by a service", ""), "")

(***************************************************************************)
(* score/service                                                           *)
(***************************************************************************)
\* corev1.ServiceTypeExternalName
ServiceTypeExternalName == "ExternalName"

\* a Service with the type of its spec
ServiceOfType(namespace, name, selector, type) ==
    [Service(namespace, name, selector) EXCEPT !.Type = type]

\* the label sets podsInNamespace[namespace] holds: those of the Pods, then
\* the pod template's of the podspecers
podsInNamespace(pods, podspecers, options, namespace) ==
    LET podIn(p) == (IF p.Namespace = "" THEN options.Namespace ELSE p.Namespace) = namespace
        keptPods == SelectSeq(pods, podIn)
        keptSpecs == SelectSeq(podspecers, podIn)
    IN [n \in 1..Len(keptPods) |-> keptPods[n].Labels]
       \o [n \in 1..Len(keptSpecs) |-> keptSpecs[n].Template.Labels]

\* the rule function serviceTargetsPod(pods, podspecers, options) applied to service
serviceTargetsPod(pods, podspecers, options, service) ==
    IF service.Type = ServiceTypeExternalName
    THEN Returned([ZeroTestScore EXCEPT !.Grade = GradeAllOK], "")
    ELSE LET serviceNamespace ==
                 IF service.Namespace = "" THEN options.Namespace ELSE service.Namespace
             candidates == podsInNamespace(pods, podspecers, options, serviceNamespace)
             hasMatch == \E n \in 1..Len(candidates) :
                             LabelSelectorMatchesLabels(service.Selector, candidates[n])
         IN IF hasMatch
            THEN Returned([ZeroTestScore EXCEPT !.Grade = GradeAllOK], "")
            ELSE Returned(AddComment([ZeroTestScore EXCEPT !.Grade = GradeCritical], "",
                                     "The services selector does not match any pods", ""), "")

\* the rule function networkPolicyTargetsPod(pods, podspecers, options)
\* applied to netPol: a Pod of the policy's namespace, or else a podspecer
\* whose own namespace is the policy's, with labels the selector matches
networkPolicyTargetsPod(pods, podspecers, options, netPol) ==
    LET netPolNamespace ==
            IF netPol.Namespace = "" THEN options.Namespace ELSE netPol.Namespace
        selects(labels) ==
            /\ ~LabelSelectorAsSelectorFails(netPol.PodSelector)
            /\ SelectorMatches(netPol.PodSelector, labels)
        podMatch ==
            \E n \in 1..Len(pods) :
                /\ (IF pods[n].Namespace = "" THEN options.Namespace ELSE pods[n].Namespace)
                      = netPolNamespace
                /\ selects(pods[n].Labels)
        podspecerMatch ==
            \E n \in 1..Len(podspecers) :
                /\ (IF podspecers[n].Namespace = "" THEN options.Namespace
                    ELSE podspecers[n].Namespace) = netPolNamespace
                /\ selects(podspecers[n].Template.Labels)
        hasMatch == podMatch \/ podspecerMatch
    IN IF hasMatch
       THEN Returned([ZeroTestScore EXCEPT !.Grade = GradeAllOK], "")
       ELSE Returned(AddComment([ZeroTestScore EXCEPT !.Grade = GradeCritical], "",
                                "The NetworkPolicies selector doesn't match any pods", ""), "")

(***************************************************************************)
(* score/security                                                          *)
(***************************************************************************)
\* *corev1.SecurityContext and *corev1.PodSecurityContext: nil, or the two
\* *int64 fields the rule reads
NilSecurityContext == [isNil |-> TRUE, RunAsUser |-> NilInt, RunAsGroup |-> NilInt]

SecurityContext(runAsUser, runAsGroup) ==
    [isNil |-> FALSE, RunAsUser |-> runAsUser, RunAsGroup |-> runAsGroup]

\* corev1.Container
Container(name, securityContext) == [Name |-> name, SecurityContext |-> securityContext]

\* corev1.PodSpec
PodSpec(initContainers, containers, securityContext) ==
    [InitContainers |-> initContainers, Containers |-> containers,
     SecurityContext |-> securityContext]

\* a podSpecer with the spec of its pod template
PodSpecerWithSpec(kind, namespace, name, spec) ==
    [Kind |-> kind, Namespace |-> namespace, Name |-> name,
     Template |-> [Namespace |-> "", Annotations |-> NilMap, Labels |-> EmptyMap,
                   Spec |-> spec]]

\* the user and group ids below which the rule reports a low id
LowUserID == 10000

LowGroupID == 10000

\* the body of the loop over allContainers for one container: the flags and
\* comments it adds, and the container as the body leaves it. sec points to
\* the container's own SecurityContext when it has one, so that the values
\* forwarded from the pod are stored in the container of the pod spec; when
\* it has none, sec is a fresh struct the pod spec does not see
checkContainerIDs(acc, container, podSecurityContext) ==
    IF container.SecurityContext.isNil /\ podSecurityContext.isNil
    THEN [acc EXCEPT !.noContextSet = TRUE,
                     !.score = AddComment(@, container.Name,
                                   "Container has no configured security context",
                                   "Set securityContext to run the container in a more secure context."),
                     !.after = Append(@, container)]
    ELSE LET own == IF container.SecurityContext.isNil
                    THEN SecurityContext(NilInt, NilInt)
                    ELSE container.SecurityContext
             sec == IF podSecurityContext.isNil THEN own
                    ELSE [own EXCEPT
                            !.RunAsGroup = IF @.isNil THEN podSecurityContext.RunAsGroup ELSE @,
                            !.RunAsUser = IF @.isNil THEN podSecurityContext.RunAsUser ELSE @]
             lowUser == sec.RunAsUser.isNil \/ sec.RunAsUser.v < LowUserID
             lowGroup == sec.RunAsGroup.isNil \/ sec.RunAsGroup.v < LowGroupID
             s1 == IF lowUser
                   THEN AddComment(acc.score, container.Name,
                            "The container is running with a low user ID",
                            "A userid above 10 000 is recommended to avoid conflicts with the host. Set securityContext.runAsUser to a value > 10000")
                   ELSE acc.score
             s2 == IF lowGroup
                   THEN AddComment(s1, container.Name,
                            "The container running with a low group ID",
                            "A groupid above 10 000 is recommended to avoid conflicts with the host. Set securityContext.runAsGroup to a value > 10000")
                   ELSE s1
         IN [acc EXCEPT !.hasLowUserID = @ \/ lowUser,
                        !.hasLowGroupID = @ \/ lowGroup,
                        !.score = s2,
                        !.after = Append(@, IF container.SecurityContext.isNil THEN container
                                            ELSE [container EXCEPT !.SecurityContext = sec])]

\* the loop over allContainers from position n on
RECURSIVE checkContainersFrom(_, _, _, _)
checkContainersFrom(acc, allContainers, n, podSecurityContext) ==
    IF n > Len(allContainers) THEN acc
    ELSE checkContainersFrom(checkContainerIDs(acc, allContainers[n], podSecurityContext),
                             allContainers, n + 1, podSecurityContext)

\* the rule function containerSecurityContextUserGroupID(options) applied to
\* ps: the score, and the podSpecer as the call leaves it
containerSecurityContextUserGroupID(options, ps) ==
    LET spec == ps.Template.Spec
        checksInit == ~options.SkipInitContainers
        allContainers == (IF checksInit THEN spec.InitContainers ELSE <<>>) \o spec.Containers
        start == [score |-> ZeroTestScore, noContextSet |-> FALSE, hasLowUserID |-> FALSE,
                  hasLowGroupID |-> FALSE, after |-> <<>>]
        end == checkContainersFrom(start, allContainers, 1, spec.SecurityContext)
        ninit == IF checksInit THEN Len(spec.InitContainers) ELSE 0
        grade == IF end.noContextSet \/ end.hasLowUserID \/ end.hasLowGroupID
                 THEN GradeCritical ELSE GradeAllOK
    IN [score |-> [end.score EXCEPT !.Grade = grade],
        err |-> "",
        ps |-> [ps EXCEPT
                  !.Template.Spec.InitContainers =
                      IF checksInit THEN SubSeq(end.after, 1, ninit) ELSE @,
                  !.Template.Spec.Containers = SubSeq(end.after, ninit + 1, Len(end.after))]]

(***************************************************************************)
(* The inputs of one call of a rule function                               *)
(***************************************************************************)
\* the values of --namespace
SampleNamespaces == {"", "prod"}

SampleRuleOptions == {[Namespace |-> ns] : ns \in SampleNamespaces}

\* policies of every kind of policyTypes in two namespaces
SampleNetworkPolicies ==
    { NetworkPolicy(ns, "np", p[1], p[2], p[3]) :
        ns \in {"", "prod"},
        p \in { <<LabelSelector(EmptyMap, <<>>), <<>>, 0>>,
                <<LabelSelector(("app" :> "web"), <<>>), <<>>, 1>>,
                <<LabelSelector(("app" :> "web"), <<>>), <<PolicyTypeEgress>>, 0>>,
                <<LabelSelector(("app" :> "web"), <<>>), <<PolicyTypeIngress>>, 1>>,
                <<LabelSelector(EmptyMap, <<Requirement("app", "In", <<"db", "cache">>)>>),
                  <<PolicyTypeIngress, PolicyTypeEgress>>, 0>>,
                <<LabelSelector(EmptyMap, <<Requirement("app", "In", <<>>)>>), <<>>, 1>> } }

\* the longest list of NetworkPolicies of a call
MaxNetpols == 2

\* the podSpeccers a Pod rule is called with: the one Score builds from a
\* Pod, and Deployments whose pod template has no namespace or one of its own
SamplePodSpeccers ==
    { [Object("Pod", "v1", ns, "worker") EXCEPT
          !.Labels = labels, !.Template.Namespace = ns, !.Template.Labels = labels] :
        ns \in {"", "prod"}, labels \in {EmptyMap, ("app" :> "web")} }
    \cup
    { [Object("Deployment", "apps/v1", ns, "web") EXCEPT
          !.Template.Namespace = tns, !.Template.Labels = labels] :
        ns \in {"", "prod"}, tns \in {"", "prod"}, labels \in {("app" :> "web"), ("app" :> "db")} }

RuleNotCalled == [called |-> FALSE, score |-> ZeroTestScore, err |-> ""]

RuleReturned(out) == [called |-> TRUE, score |-> out.score, err |-> out.err]

\* the calls of podHasNetworkPolicy
PodHasNetworkPolicyCalls ==
    [fn : {"podHasNetworkPolicy"},
     allNetpols : ListsUpTo(SampleNetworkPolicies, MaxNetpols),
     options : SampleRuleOptions,
     ps : SamplePodSpeccers]

\* HPAs whose target names the Deployment web of namespace prod, and HPAs
\* that differ from them in namespace, apiVersion, letter case of the kind or name
SampleHpas ==
    { HpaTargeter(h[1], "scaler", CrossVersionObjectReference(h[2], h[3], h[4])) :
        h \in { <<"prod", "apps/v1", "Deployment", "web">>,
                <<"", "apps/v1", "Deployment", "web">>,
                <<"prod", "extensions/v1beta1", "Deployment", "web">>,
                <<"prod", "apps/v1", "deployment", "web">>,
                <<"prod", "apps/v1", "Deployment", "api">>,
                <<"", "extensions/v1beta1", "deployment", "web">> } }

\* Services in two namespaces that select app=web, app=db or everything
SampleServices ==
    { Service(ns, "svc", sel) :
        ns \in {"", "prod"}, sel \in {("app" :> "web"), ("app" :> "db"), EmptyMap} }

\* the Deployment web, with and without namespace and replica count
SampleTargetDeployments ==
    { [Object("Deployment", "apps/v1", ns, "web") EXCEPT
          !.Template.Labels = ("app" :> "web"), !.Replicas = r] :
        ns \in {"", "prod"}, r \in {NilInt, IntPtr(1), IntPtr(2)} }

\* the longest list of HPAs of a call
MaxHpas == 2

\* the longest list of Services of a call
MaxServices == 1

\* the calls of hpaHasTarget: one HPA, the objects it can target
HpaHasTargetCalls ==
    [fn : {"hpaHasTarget"},
     options : {[AllTargetableObjs |-> objs, Namespace |-> ns] :
                   objs \in ListsUpTo(SampleTargetDeployments, MaxHpas),
                   ns \in SampleNamespaces},
     hpa : SampleHpas]

\* the calls of deploymentReplicas
DeploymentReplicasCalls ==
    [fn : {"deploymentReplicas"},
     svcs : ListsUpTo(SampleServices, MaxServices),
     hpas : ListsUpTo(SampleHpas, MaxHpas),
     options : SampleRuleOptions,
     deployment : SampleTargetDeployments]

\* the calls of hpaDeploymentNoReplicas
HpaDeploymentNoReplicasCalls ==
    [fn : {"hpaDeploymentNoReplicas"},
     allHPAs : ListsUpTo(SampleHpas, MaxHpas),
     options : SampleRuleOptions,
     deployment : SampleTargetDeployments]

\* the backends of a path: none, the Service svc by port number 8080 or 80,
\* or by port name http
SampleBackends ==
    { NilBackendService, IngressServiceBackend("svc", 8080, ""),
      IngressServiceBackend("svc", 80, ""), IngressServiceBackend("svc", 0, "http") }

\* a rule without HTTP, and the rules of one path
SampleIngressRules ==
    { [HTTP |-> NilHTTP] } \cup { IngressRule(<<HTTPIngressPath("/", b)>>) : b \in SampleBackends }

\* the most rules of an Ingress
MaxRules == 2

SampleIngresses ==
    { Ingress(ns, "ing", rules) :
        ns \in {"", "prod"}, rules \in ListsUpTo(SampleIngressRules, MaxRules) }

\* the Service svc in two namespaces with one port, named or not, and a
\* Service of another name
SampleIngressServices ==
    { ServiceWithPorts(ns, "svc", <<port>>) :
        ns \in {"", "prod"},
        port \in { ServicePort(80, ""), ServicePort(80, "http"),
                   ServicePort(8080, "web"), ServicePort(8080, "") } }
    \cup { ServiceWithPorts("prod", "other", <<ServicePort(8080, "http")>>) }

\* the longest list of Services of a call of ingressTargetsService
MaxIngressServices == 2

\* the calls of ingressTargetsServiceCommon
IngressTargetsServiceCalls ==
    [fn : {"ingressTargetsService"},
     ingress : SampleIngresses,
     allServices : ListsUpTo(SampleIngressServices, MaxIngressServices),
     options : SampleRuleOptions]

\* budgets for app=web in three namespaces, by label and by expression, a
\* budget for app=db, one whose selector LabelSelectorAsSelector rejects and
\* one without selector
SampleRuleBudgets ==
    { [Object("PodDisruptionBudget", "policy/v1", b[1], "pdb") EXCEPT !.Selector = b[2]] :
        b \in { <<"", LabelSelector(("app" :> "web"), <<>>)>>,
                <<"prod", LabelSelector(("app" :> "web"), <<>>)>>,
                <<"staging", LabelSelector(("app" :> "web"), <<>>)>>,
                <<"prod", LabelSelector(("app" :> "db"), <<>>)>>,
                <<"prod", LabelSelector(EmptyMap, <<Requirement("app", "In", <<"web", "cache">>)>>)>>,
                <<"prod", LabelSelector(EmptyMap, <<Requirement("app", "In", <<>>)>>)>>,
                <<"prod", NilSelector>> } }

\* the longest list of budgets of a call
MaxRuleBudgets == 2

\* StatefulSets and Deployments for app=web, with and without namespace,
\* without replica count and with 1, 2 and 10 replicas
SampleWorkloads ==
    { [Object(kind, "apps/v1", ns, "web") EXCEPT
          !.Template.Labels = ("app" :> "web"), !.Replicas = r] :
        kind \in {"StatefulSet", "Deployment"}, ns \in {"", "prod"},
        r \in {NilInt, IntPtr(1), IntPtr(2), IntPtr(10)} }

\* the calls of statefulSetHas and deploymentHas
WorkloadHasBudgetCalls ==
    { c \in [fn : {"statefulSetHas", "deploymentHas"},
             budgets : ListsUpTo(SampleRuleBudgets, MaxRuleBudgets),
             options : SampleRuleOptions,
             workload : SampleWorkloads] :
        c.workload.Kind = (IF c.fn = "statefulSetHas" THEN "StatefulSet" ELSE "Deployment") }

\* the Deployment web with every strategy type, with and without namespace
SampleStrategyDeployments ==
    { [Object("Deployment", "apps/v1", ns, "web") EXCEPT
          !.Template.Labels = ("app" :> "web"), !.Strategy = t] :
        ns \in {"", "prod"},
        t \in {"", RollingUpdateDeploymentStrategyType, RecreateDeploymentStrategyType} }

\* the calls of deploymentRolloutStrategy
DeploymentRolloutStrategyCalls ==
    [fn : {"deploymentRolloutStrategy"},
     svcs : ListsUpTo(SampleServices, MaxServices),
     options : SampleRuleOptions,
     deployment : SampleStrategyDeployments]

\* label sets of pods
SampleLabels == { EmptyMap, ("app" :> "web"), ("app" :> "web") @@ ("tier" :> "front"),
                  ("app" :> "web") @@ ("tier" :> "back") }

\* Pods with every label set, with and without namespace
SampleRulePods ==
    { [Object("Pod", "v1", ns, "worker") EXCEPT !.Labels = labels] :
        ns \in {"", "prod"}, labels \in SampleLabels }

\* Deployments whose pod template has every label set
SampleRulePodSpeccers ==
    { [Object("Deployment", "apps/v1", ns, "web") EXCEPT !.Template.Labels = labels] :
        ns \in {"", "prod"}, labels \in SampleLabels }

\* Services that select everything, one pair or two pairs, of the default
\* type and of type ExternalName
SampleTargetingServices ==
    { ServiceOfType(ns, "svc", selector, type) :
        ns \in {"", "prod"},
        selector \in { EmptyMap, ("app" :> "web"), ("app" :> "web") @@ ("tier" :> "front"),
                       ("app" :> "db") },
        type \in {"", ServiceTypeExternalName} }

\* the longest list of Pods and the longest list of podspecers of a call
MaxPods == 1

\* the calls of serviceTargetsPod
ServiceTargetsPodCalls ==
    [fn : {"serviceTargetsPod"},
     pods : ListsUpTo(SampleRulePods, MaxPods),
     podspecers : ListsUpTo(SampleRulePodSpeccers, MaxPods),
     options : SampleRuleOptions,
     service : SampleTargetingServices]

\* the calls of networkPolicyTargetsPod: Pods, and Deployments whose pod
\* template has no namespace or one of its own
NetworkPolicyTargetsPodCalls ==
    [fn : {"networkPolicyTargetsPod"},
     pods : ListsUpTo(SampleRulePods, MaxPods),
     podspecers : ListsUpTo({ps \in SamplePodSpeccers : ps.Kind = "Deployment"}, MaxPods),
     options : SampleRuleOptions,
     netPol : SampleNetworkPolicies]

\* security contexts: none, one without ids, and ids below, at and above
\* the limit of the rule
SampleSecurityContexts ==
    { NilSecurityContext,
      SecurityContext(NilInt, NilInt),
      SecurityContext(IntPtr(10001), IntPtr(10001)),
      SecurityContext(IntPtr(10000), IntPtr(10000)),
      SecurityContext(IntPtr(9999), IntPtr(10001)),
      SecurityContext(IntPtr(10001), IntPtr(9999)),
      SecurityContext(IntPtr(10001), NilInt),
      SecurityContext(NilInt, IntPtr(10001)) }

SampleContainers == { Container("app", sec) : sec \in SampleSecurityContexts }

SampleInitContainers ==
    { Container("init", sec) :
        sec \in { NilSecurityContext, SecurityContext(NilInt, NilInt),
                  SecurityContext(IntPtr(10001), IntPtr(10001)) } }

\* the longest list of containers and of init containers of a pod spec
MaxContainers == 1

\* the options of the security rules
SampleSecurityOptions == [SkipInitContainers : BOOLEAN]

\* the calls of containerSecurityContextUserGroupID
ContainerSecurityContextUserGroupIDCalls ==
    [fn : {"containerSecurityContextUserGroupID"},
     options : SampleSecurityOptions,
     ps : { PodSpecerWithSpec("Deployment", "prod", "web", PodSpec(ics, cs, sec)) :
              ics \in ListsUpTo(SampleInitContainers, MaxContainers),
              cs \in ListsUpTo(SampleContainers, MaxContainers),
              sec \in SampleSecurityContexts }]

InitRules ==
    /\ ScoreIdle
    /\ RegistryIdle
    /\ SkipIdle
    /\ EnabledIdle
    /\ ruleCall \in PodHasNetworkPolicyCalls \cup HpaHasTargetCalls
                    \cup DeploymentReplicasCalls \cup HpaDeploymentNoReplicasCalls
                    \cup IngressTargetsServiceCalls
                    \cup WorkloadHasBudgetCalls
                    \cup DeploymentRolloutStrategyCalls
                    \cup ServiceTargetsPodCalls
                    \cup NetworkPolicyTargetsPodCalls
                    \cup ContainerSecurityContextUserGroupIDCalls
    /\ ruleOut = RuleNotCalled

CallPodHasNetworkPolicy ==
    /\ ~ruleOut.called
    /\ ruleCall.fn = "podHasNetworkPolicy"
    /\ ruleOut' = RuleReturned(podHasNetworkPolicy(ruleCall.allNetpols, ruleCall.options,
                                                   ruleCall.ps))
    /\ UNCHANGED <<ruleCall, enabledVars, scoreVars, registryVars, skipVars>>

CallHpaHasTarget ==
    /\ ~ruleOut.called
    /\ ruleCall.fn = "hpaHasTarget"
    /\ ruleOut' = RuleReturned(hpaHasTarget(ruleCall.options, ruleCall.hpa))
    /\ UNCHANGED <<ruleCall, enabledVars, scoreVars, registryVars, skipVars>>

CallDeploymentReplicas ==
    /\ ~ruleOut.called
    /\ ruleCall.fn = "deploymentReplicas"
    /\ ruleOut' = RuleReturned(deploymentReplicas(ruleCall.svcs, ruleCall.hpas,
                                                  ruleCall.options, ruleCall.deployment))
    /\ UNCHANGED <<ruleCall, enabledVars, scoreVars, registryVars, skipVars>>

CallHpaDeploymentNoReplicas ==
    /\ ~ruleOut.called
    /\ ruleCall.fn = "hpaDeploymentNoReplicas"
    /\ ruleOut' = RuleReturned(hpaDeploymentNoReplicas(ruleCall.allHPAs, ruleCall.options,
                                                       ruleCall.deployment))
    /\ UNCHANGED <<ruleCall, enabledVars, scoreVars, registryVars, skipVars>>

CallIngressTargetsService ==
    /\ ~ruleOut.called
    /\ ruleCall.fn = "ingressTargetsService"
    /\ ruleOut' = RuleReturned(ingressTargetsServiceCommon(ruleCall.ingress, ruleCall.allServices,
                                                           ruleCall.options))
    /\ UNCHANGED <<ruleCall, enabledVars, scoreVars, registryVars, skipVars>>

CallStatefulSetHas ==
    /\ ~ruleOut.called
    /\ ruleCall.fn = "statefulSetHas"
    /\ ruleOut' = RuleReturned(statefulSetHas(ruleCall.budgets, ruleCall.options,
                                              ruleCall.workload))
    /\ UNCHANGED <<ruleCall, enabledVars, scoreVars, registryVars, skipVars>>

CallDeploymentHas ==
    /\ ~ruleOut.called
    /\ ruleCall.fn = "deploymentHas"
    /\ ruleOut' = RuleReturned(deploymentHas(ruleCall.budgets, ruleCall.options,
                                             ruleCall.workload))
    /\ UNCHANGED <<ruleCall, enabledVars, scoreVars, registryVars, skipVars>>

CallDeploymentRolloutStrategy ==
    /\ ~ruleOut.called
    /\ ruleCall.fn = "deploymentRolloutStrategy"
    /\ ruleOut' = RuleReturned(deploymentRolloutStrategy(ruleCall.svcs, ruleCall.options,
                                                         ruleCall.deployment))
    /\ UNCHANGED <<ruleCall, enabledVars, scoreVars, registryVars, skipVars>>

CallServiceTargetsPod ==
    /\ ~ruleOut.called
    /\ ruleCall.fn = "serviceTargetsPod"
    /\ ruleOut' = RuleReturned(serviceTargetsPod(ruleCall.pods, ruleCall.podspecers,
                                                 ruleCall.options, ruleCall.service))
    /\ UNCHANGED <<ruleCall, enabledVars, scoreVars, registryVars, skipVars>>

CallNetworkPolicyTargetsPod ==
    /\ ~ruleOut.called
    /\ ruleCall.fn = "networkPolicyTargetsPod"
    /\ ruleOut' = RuleReturned(networkPolicyTargetsPod(ruleCall.pods, ruleCall.podspecers,
                                                       ruleCall.options, ruleCall.netPol))
    /\ UNCHANGED <<ruleCall, enabledVars, scoreVars, registryVars, skipVars>>

\* the call of the rule function; ruleOut.ps is the podSpecer as the call
\* leaves it
CallContainerSecurityContextUserGroupID ==
    /\ ~ruleOut.called
    /\ ruleCall.fn = "containerSecurityContextUserGroupID"
    /\ LET out == containerSecurityContextUserGroupID(ruleCall.options, ruleCall.ps)
       IN ruleOut' = [called |-> TRUE, score |-> out.score, err |-> out.err, ps |-> out.ps]
    /\ UNCHANGED <<ruleCall, enabledVars, scoreVars, registryVars, skipVars>>

NextRules ==
    \/ CallPodHasNetworkPolicy
    \/ CallHpaHasTarget
    \/ CallDeploymentReplicas
    \/ CallHpaDeploymentNoReplicas
    \/ CallIngressTargetsService
    \/ CallStatefulSetHas
    \/ CallDeploymentHas
    \/ CallDeploymentRolloutStrategy
    \/ CallServiceTargetsPod
    \/ CallNetworkPolicyTargetsPod
    \/ CallContainerSecurityContextUserGroupID

SpecRules == InitRules /\ [][NextRules]_vars

(***************************************************************************)
(* config: skip expressions, and their parsing by the command              *)
(***************************************************************************)
\* a raw expression is the sequence of its characters

\* the state of splitter.Split at the start of the scan
SplitStart == [inQuote |-> FALSE, current |-> <<>>, parts |-> <<>>]

\* equalSplitter.Split from position n on: a '=' outside single quotes ends
\* a part, a single quote opens or closes a quoted stretch that stays in the
\* part, and a quote still open at the end is an error
RECURSIVE SplitFrom(_, _, _)
SplitFrom(value, n, st) ==
    IF n > Len(value)
    THEN IF st.inQuote THEN [err |-> "unclosed quote", parts |-> <<>>]
         ELSE [err |-> "", parts |-> Append(st.parts, st.current)]
    ELSE LET c == value[n]
         IN IF c = "'"
            THEN SplitFrom(value, n + 1,
                           [st EXCEPT !.inQuote = ~@, !.current = Append(@, c)])
            ELSE IF c = "=" /\ ~st.inQuote
            THEN SplitFrom(value, n + 1,
                           [st EXCEPT !.parts = Append(@, st.current), !.current = <<>>])
            ELSE SplitFrom(value, n + 1, [st EXCEPT !.current = Append(@, c)])

\* splitRawExpression: the two parts, or an error
splitRawExpression(value) ==
    LET split == SplitFrom(value, 1, SplitStart)
    IN IF split.err # "" THEN [err |-> split.err, rawPath |-> <<>>, value |-> <<>>]
       ELSE IF Len(split.parts) # 2
       THEN [err |-> "invalid expression", rawPath |-> <<>>, value |-> <<>>]
       ELSE [err |-> "", rawPath |-> split.parts[1], value |-> split.parts[2]]

\* unquote: strconv.Unquote of the value, or the value itself when that
\* fails. Of the values without double quote, backquote and backslash,
\* strconv.Unquote accepts only one character between single quotes
unquote(value) ==
    IF Len(value) = 3 /\ value[1] = "'" /\ value[3] = "'" /\ value[2] # "'"
    THEN <<value[2]>>
    ELSE value

\* yamlpath.NewPath succeeds: of the paths made of the sample characters,
\* the empty path (identity) and the root path
PathCompiles(rawPath) == rawPath \in {<<>>, <<"$">>}

\* regexp.Compile succeeds: of the patterns made of the sample characters,
\* those without an opening parenthesis, which nothing can close
RegexCompiles(value) == \A n \in 1..Len(value) : value[n] # "("

\* no *SkipExpression
NilSkipExpression == [isNil |-> TRUE, RawPath |-> <<>>, RawValue |-> <<>>]

\* ParseSkipExpression: the expression, or an error, or a panic. When
\* regexp.Compile fails valueRegex is nil, and the error message is built
\* from valueRegex.String(), which dereferences it
ParseSkipExpression(rawExpression) ==
    LET split == splitRawExpression(rawExpression)
        rawPath == unquote(split.rawPath)
        value == unquote(split.value)
    IN IF split.err # ""
       THEN [expr |-> NilSkipExpression, err |-> split.err, panics |-> FALSE]
       ELSE IF ~PathCompiles(rawPath)
       THEN [expr |-> NilSkipExpression, err |-> "invalid path", panics |-> FALSE]
       ELSE IF ~RegexCompiles(value)
       THEN [expr |-> NilSkipExpression, err |-> "", panics |-> TRUE]
       ELSE [expr |-> [isNil |-> FALSE, RawPath |-> rawPath, RawValue |-> value],
             err |-> "", panics |-> FALSE]

\* raw expressions: well formed ones, with and without quotes, and ones
\* with no '=', with two, with a quoted '=', with a quote left open, with a
\* path that does not compile and with a pattern that does not compile
SampleRawExpressions ==
    { <<"$", "=", "$">>,
      <<"'", "$", "'", "=", "$">>,
      <<"$", "=", "'", "=", "'">>,
      <<"=", "$">>,
      <<>>,
      <<"$">>,
      <<"$", "=", "$", "=", "$">>,
      <<"'", "$", "=", "$", "'">>,
      <<"$", "=", "'", "$">>,
      <<"$", "$", "=", "$">>,
      <<"(", "=", "$">>,
      <<"$", "=", "(">>,
      <<"$", "=", "'", "(", "'">> }

\* the most --skip flags of a run
MaxSkipExpressions == 2

\* run() reaches the loop over *opts.skipExpressions; no file is parsed yet
InitSkip ==
    /\ EnabledIdle
    /\ ScoreIdle
    /\ RuleIdle
    /\ RegistryIdle
    /\ \E raw \in ListsUpTo(SampleRawExpressions, MaxSkipExpressions) :
          skipParse = [phase |-> "flags", raw |-> raw, skipExpressions |-> <<>>, err |-> ""]

\* one iteration of the loop: the next raw expression is parsed; an error
\* ends run() with that error, a panic ends the process
ParseNextSkipExpression ==
    /\ skipParse.phase = "flags"
    /\ Len(skipParse.skipExpressions) < Len(skipParse.raw)
    /\ LET out == ParseSkipExpression(skipParse.raw[Len(skipParse.skipExpressions) + 1])
       IN skipParse' =
            IF out.panics THEN [skipParse EXCEPT !.phase = "crashed"]
            ELSE IF out.err # ""
            THEN [skipParse EXCEPT !.phase = "failed",
                                   !.err = "invalid skip expression: " \o out.err]
            ELSE [skipParse EXCEPT !.skipExpressions = Append(@, out.expr)]
    /\ UNCHANGED <<enabledVars, scoreVars, ruleVars, registryVars>>

\* after the loop run() builds the run configuration and goes on to parse
\* and score the files
ParseFiles ==
    /\ skipParse.phase = "flags"
    /\ Len(skipParse.skipExpressions) = Len(skipParse.raw)
    /\ skipParse' = [skipParse EXCEPT !.phase = "files"]
    /\ UNCHANGED <<enabledVars, scoreVars, ruleVars, registryVars>>

NextSkip ==
    \/ ParseNextSkipExpression
    \/ ParseFiles

SpecSkip == InitSkip /\ [][NextSkip]_vars

(***************************************************************************)
(* Properties of the enablement policy                                     *)
(***************************************************************************)
\* both annotation switches of the run configuration are on
HonoringEnabled == so.useIgnoreChecksAnnotation /\ so.useOptionalChecksAnnotation

\* the annotation set m carries kube-score/<id> with one of the words
HasDirective(m, c, words) ==
    /\ MapHas(m, checkAnnotationKey(c))
    /\ TrimSpace(ToLower(MapGet(m, checkAnnotationKey(c)))) \in words

\* the list annotation listKey of m covers the rule: by id, wildcard or group
ListCovers(m, listKey, c) ==
    /\ MapHas(m, listKey)
    /\ \E n \in 1..Len(Split(MapGet(m, listKey), ",")) :
         LET e == TrimSpace(Split(MapGet(m, listKey), ",")[n])
         IN \/ e = c.ID
            \/ e = "*"
            \/ /\ e \in DOMAIN impliedIgnoreAnnotations
               /\ c.ID \in {impliedIgnoreAnnotations[e][i] :
                              i \in 1..Len(impliedIgnoreAnnotations[e])}

\* the annotation set m mentions the rule
Mentions(m, c) ==
    \/ MapHas(m, checkAnnotationKey(c))
    \/ ListCovers(m, ignoredChecksAnnotation, c)
    \/ ListCovers(m, optionalChecksAnnotation, c)

\* the annotation source that decides: the pod template's when it mentions
\* the rule, the object's own otherwise
DecidingSource ==
    IF ~childAnnotations.isNil /\ Mentions(childAnnotations, check)
    THEN childAnnotations ELSE annotations

\* C1: with annotation honoring enabled, a deny directive in the deciding
\* annotation source makes isEnabled return false, whatever the lists, the
\* optional flag and the run-wide enabled set say.
C1_DenyDirectiveSkips ==
    (ret.called /\ HonoringEnabled /\ HasDirective(DecidingSource, check, DenyValues))
        => ret.value = FALSE

\* C2: with annotation honoring enabled, an allow directive in the deciding
\* annotation source makes isEnabled return true, also for an optional rule
\* and also when the same source's ignore list names the rule.
C2_AllowDirectiveRuns ==
    (ret.called /\ HonoringEnabled /\ HasDirective(DecidingSource, check, AllowValues))
        => ret.value = TRUE

\* C3: an optional rule is enabled only if it is in the run-wide enabled set,
\* or an enable list (pod template or object) covers it, or a rule-specific
\* allow directive for it is present.
C3_OptionalNeedsEnablement ==
    (ret.called /\ check.Optional /\ ret.value)
        => \/ check.ID \in so.enabledOptionalTests
           \/ ListCovers(childAnnotations, optionalChecksAnnotation, check)
           \/ ListCovers(annotations, optionalChecksAnnotation, check)
           \/ HasDirective(childAnnotations, check, AllowValues)
           \/ HasDirective(annotations, check, AllowValues)

\* an optional rule outside the run-wide set that an annotation enabled
C3_Witness ==
    /\ ret.called /\ check.Optional /\ ret.value
    /\ check.ID \notin so.enabledOptionalTests

\* the pod template enables the rule and does not ignore it
TemplateEnables ==
    /\ ~childAnnotations.isNil
    /\ ListCovers(childAnnotations, optionalChecksAnnotation, check)
    /\ ~ListCovers(childAnnotations, ignoredChecksAnnotation, check)
    /\ ~HasDirective(childAnnotations, check, DenyValues)

\* the pod template ignores the rule and does not enable it
TemplateIgnores ==
    /\ ~childAnnotations.isNil
    /\ ListCovers(childAnnotations, ignoredChecksAnnotation, check)
    /\ ~ListCovers(childAnnotations, optionalChecksAnnotation, check)
    /\ ~HasDirective(childAnnotations, check, AllowValues)

\* C4 (first sentence): enabled by the pod template's list, ignored by the
\* object's list: the rule runs.
C4_TemplateEnableWins ==
    (ret.called /\ HonoringEnabled /\ TemplateEnables
       /\ ListCovers(annotations, ignoredChecksAnnotation, check))
        => ret.value = TRUE

\* C4 (second sentence): ignored by the pod template's list, enabled by the
\* object's list: the rule is skipped.
C4_TemplateIgnoreWins ==
    (ret.called /\ HonoringEnabled /\ TemplateIgnores
       /\ ListCovers(annotations, optionalChecksAnnotation, check))
        => ret.value = FALSE

\* C4 (third sentence): when the pod template mentions the rule, the result
\* is the one the same call gives without the object's own annotations.
C4_ObjectDecidesOnlyWhenTemplateSilent ==
    (ret.called /\ HonoringEnabled /\ ~childAnnotations.isNil
       /\ Mentions(childAnnotations, check))
        => ret.value = isEnabled(so, check, NilMap, childAnnotations)

\* C4: when the pod template's and the object's annotations disagree about a
\* rule the pod template wins, and the object's annotations decide only when
\* the pod template does not mention the rule.
C4_PodTemplateWins ==
    /\ C4_TemplateEnableWins
    /\ C4_TemplateIgnoreWins
    /\ C4_ObjectDecidesOnlyWhenTemplateSilent

\* the same three statements for pod templates without a rule-specific
\* annotation (not a claim: it locates the failure of C4 in the directives)
C4_ListsOnly ==
    MapHas(childAnnotations, checkAnnotationKey(check)) \/ C4_PodTemplateWins

\* C5: when no annotation source mentions the rule, isEnabled is true exactly
\* when the rule is in the run-wide enabled set or is not optional.
C5_UnmentionedRuleDefault ==
    (ret.called /\ ~Mentions(annotations, check) /\ ~Mentions(childAnnotations, check))
        => ret.value = (check.ID \in so.enabledOptionalTests \/ ~check.Optional)

\* an optional rule no annotation mentions, run because of the run-wide set
C5_Witness ==
    /\ ret.called /\ ~Mentions(annotations, check) /\ ~Mentions(childAnnotations, check)
    /\ check.Optional /\ ret.value
    /\ (DOMAIN annotations.kv # {} \/ DOMAIN childAnnotations.kv # {})

\* the annotation set m without the annotation key
WithoutAnnotation(m, key) ==
    IF m.isNil THEN m ELSE MakeMap([k \in DOMAIN m.kv \ {key} |-> m.kv[k]])

\* isEnabled returns what it returns for the object and the pod template
\* without the annotation key, so the same for every content of it
SameForEveryContent(key) ==
    ret.value = isEnabled(so, check, WithoutAnnotation(annotations, key),
                          WithoutAnnotation(childAnnotations, key))

\* C16: with the honoring of kube-score/ignore disabled, isEnabled returns
\* the same for every content of that annotation on the object and on the pod
\* template; the same for kube-score/enable; with both disabled it returns
\* true exactly for the rules that are run-wide enabled or not optional.
C16_DisabledAnnotationsNoEffect ==
    ret.called =>
        /\ ~so.useIgnoreChecksAnnotation => SameForEveryContent(ignoredChecksAnnotation)
        /\ ~so.useOptionalChecksAnnotation => SameForEveryContent(optionalChecksAnnotation)
        /\ (~so.useIgnoreChecksAnnotation /\ ~so.useOptionalChecksAnnotation)
              => ret.value = (check.ID \in so.enabledOptionalTests \/ ~check.Optional)

\* a rule that is not optional runs although the ignore list of the object
\* covers it, the honoring of kube-score/ignore being disabled
C16_Witness ==
    /\ ret.called
    /\ ~so.useIgnoreChecksAnnotation
    /\ so.useOptionalChecksAnnotation
    /\ ~check.Optional
    /\ ListCovers(annotations, ignoredChecksAnnotation, check)
    /\ ret.value

\* the list annotation listKey of m has the entry e, whitespace removed
HasEntry(m, listKey, e) ==
    /\ MapHas(m, listKey)
    /\ \E n \in 1..Len(Split(MapGet(m, listKey), ",")) :
          TrimSpace(Split(MapGet(m, listKey), ",")[n]) = e

\* the deciding annotation source has no rule-specific directive of the rule
NoDirective == ~MapHas(DecidingSource, checkAnnotationKey(check))

\* C17: with annotation honoring enabled and no rule-specific directive in
\* the deciding annotation source, a rule is skipped when the ignore list
\* has the entry * and run, optional or not, when the enable list has the
\* entry * and the ignore list covers nothing; in general it is skipped when
\* the ignore list covers it by id, * or group, else run when the enable list
\* covers it, entries being compared without their surrounding whitespace.
C17_WildcardAndGroups ==
    (ret.called /\ HonoringEnabled /\ NoDirective) =>
        /\ HasEntry(DecidingSource, ignoredChecksAnnotation, "*") => ~ret.value
        /\ (/\ HasEntry(DecidingSource, optionalChecksAnnotation, "*")
            /\ \A c \in SampleChecks : ~ListCovers(DecidingSource, ignoredChecksAnnotation, c))
              => ret.value
        /\ ListCovers(DecidingSource, ignoredChecksAnnotation, check) => ~ret.value
        /\ (/\ ~ListCovers(DecidingSource, ignoredChecksAnnotation, check)
            /\ ListCovers(DecidingSource, optionalChecksAnnotation, check)) => ret.value
        /\ (/\ ~ListCovers(DecidingSource, ignoredChecksAnnotation, check)
            /\ ~ListCovers(DecidingSource, optionalChecksAnnotation, check))
              => ret.value = (check.ID \in so.enabledOptionalTests \/ ~check.Optional)

\* an optional rule runs because the enable list of the pod template names
\* its group between whitespace, the ignore list there naming another rule
C17_Witness ==
    /\ ret.called /\ HonoringEnabled /\ NoDirective
    /\ DecidingSource = childAnnotations
    /\ check.Optional
    /\ ~HasEntry(childAnnotations, optionalChecksAnnotation, "*")
    /\ ~HasEntry(childAnnotations, optionalChecksAnnotation, check.ID)
    /\ ListCovers(childAnnotations, optionalChecksAnnotation, check)
    /\ MapHas(childAnnotations, ignoredChecksAnnotation)
    /\ check.ID \notin so.enabledOptionalTests
    /\ ret.value

(***************************************************************************)
(* Properties of the registry and of Score                                 *)
(***************************************************************************)
\* the ids --ignore-tests names
IgnoredTests == listToStructMap(opts.ignoreTests)

\* the map a Register method of the target type stores its rules in
MapOfTargetType(t) ==
    CASE t = "all" -> "metas"
      [] t = "Pod" -> "pods"
      [] t = "Service" -> "services"
      [] t = "StatefulSet" -> "statefulsets"
      [] t = "Deployment" -> "deployments"
      [] t = "NetworkPolicy" -> "networkpolicies"
      [] t = "Ingress" -> "ingresses"
      [] t = "CronJob" -> "cronjobs"
      [] t = "HorizontalPodAutoscaler" -> "horizontalPodAutoscalers"
      [] t = "PodDisruptionBudget" -> "poddisruptionbudgets"

\* the names of the rules RegisterAllChecks registers
RuleNames ==
    LET regs == RegisterAllChecksCalls(EmptyObjects, [Namespace |-> ""], {})
    IN {regs[n].name : n \in 1..Len(regs)}

\* the id derived from the name of each rule
DerivedID == [name \in RuleNames |-> machineFriendlyName(name)]

\* the object a call of a rule function was made on
ObjectOf(call) == allObjects[call.list][call.idx]

\* C6: every call of a rule function during Score is made on an object for
\* which the enablement policy lets the rule run; in particular a call whose
\* error ends the run is a call of a rule the policy lets run.
C6_InvokedOnlyWhenEnabled ==
    \A n \in 1..Len(calls) : calls[n].enabled

\* C7: every registration made so far is listed by All(); a rule whose id
\* is ignored is in none of the ten maps, a rule whose id is not ignored is
\* in the map of its kind; and no call of a rule function is a call of a
\* rule whose id is ignored.
C7_IgnoredListedNotRun ==
    /\ Len(All(allChecks)) = nreg
    /\ \A n \in 1..nreg :
         LET ch == All(allChecks)[n]
         IN /\ ch.Name = registrations[n].name
            /\ ch.ID = DerivedID[registrations[n].name]
            /\ ch.ID \in IgnoredTests => \A mp \in MapNames : ch.ID \notin DOMAIN allChecks[mp]
            /\ ch.ID \notin IgnoredTests =>
                 /\ ch.ID \in DOMAIN allChecks[MapOfTargetType(ch.TargetType)]
                 /\ allChecks[MapOfTargetType(ch.TargetType)][ch.ID].Check = ch
    /\ \A n \in 1..Len(calls) : calls[n].ID \notin IgnoredTests

\* Score returned a scorecard in a run that ignores the optional rule
\* container-ports-check, enables it run-wide and enables it by annotation
C7_Witness ==
    /\ pc = "done"
    /\ result.hasScoreCard
    /\ "container-ports-check" \in IgnoredTests \cap runConfig.EnabledOptionalTests
    /\ runConfig.UseOptionalChecksAnnotation
    /\ \E n \in 1..Len(All(allChecks)) : All(allChecks)[n].ID = "container-ports-check"
    /\ \E n \in 1..Len(calls) : calls[n].kind = "CronJob" /\ calls[n].TargetType = "Pod"

\* C8: a call of a rule function that returned an error is the last call,
\* and Score has returned that error and no scorecard.
C8_ErrorStopsScore ==
    \A n \in 1..Len(calls) :
        calls[n].err # "" =>
            /\ n = Len(calls)
            /\ pc = "done"
            /\ result = [returned |-> TRUE, hasScoreCard |-> FALSE, err |-> calls[n].err]

\* no rule function was called twice on the same object
OncePerObject ==
    \A n, m \in 1..Len(calls) :
        (calls[n].mp = calls[m].mp /\ calls[n].ID = calls[m].ID /\ calls[n].key = calls[m].key)
            => n = m

\* C9: no rule is called twice on the same object, and every call of a
\* rule is made on an object of the kind the rule is registered against.
C9_OnlyOwnKind ==
    /\ OncePerObject
    /\ \A n \in 1..Len(calls) : calls[n].kind = calls[n].TargetType

\* whether the object is one of the pod template bearing objects
IsPodSpeccer(o) == \E i \in 1..Len(allObjects.PodSpeccers) : allObjects.PodSpeccers[i] = o

\* C9 (amended): no rule is called twice on the same object, and every call
\* of a rule is made on an object of the kind the rule is registered
\* against, except that a rule registered against Pod is also called on the
\* pod template bearing objects, and a rule registered against "all" is
\* called on objects of every kind.
C9_OwnKindOrPodTemplateOrAll ==
    /\ OncePerObject
    /\ \A n \in 1..Len(calls) :
         \/ calls[n].kind = calls[n].TargetType
         \/ calls[n].TargetType = "Pod" /\ IsPodSpeccer(ObjectOf(calls[n]))
         \/ calls[n].TargetType = "all"

\* Score returned a scorecard after calls of a Pod rule on the Pod and on
\* the Deployment, of a Deployment rule on the Deployment, and of an "all"
\* rule on the StatefulSet
C9_Witness ==
    /\ pc = "done"
    /\ result.hasScoreCard
    /\ \E n \in 1..Len(calls) : calls[n].TargetType = "Pod" /\ calls[n].kind = "Pod"
    /\ \E n \in 1..Len(calls) : calls[n].TargetType = "Pod" /\ calls[n].kind = "Deployment"
    /\ \E n \in 1..Len(calls) : calls[n].TargetType = "Deployment" /\ calls[n].kind = "Deployment"
    /\ \E n \in 1..Len(calls) : calls[n].TargetType = "all" /\ calls[n].kind = "StatefulSet"

\* the budgets whose selector LabelSelectorAsSelector accepts
ParsableBudgets(budgets) ==
    SelectSeq(budgets, LAMBDA b : ~LabelSelectorAsSelectorFails(b.Selector))

\* C10: a call of one of the two budget rules returns no error and the
\* score the rule computes from the budgets whose selector can be parsed,
\* and Score never returns the error of a selector that cannot be parsed.
C10_UnparsableBudgetMatchesNothing ==
    /\ \A n \in 1..Len(calls) :
         LET options == [Namespace |-> runConfig.Namespace]
             budgets == ParsableBudgets(allObjects.PodDisruptionBudgets)
         IN /\ calls[n].fn = "statefulSetHas" =>
                 /\ calls[n].err = ""
                 /\ calls[n].score = statefulSetHas(budgets, options, ObjectOf(calls[n])).score
            /\ calls[n].fn = "deploymentHas" =>
                 /\ calls[n].err = ""
                 /\ calls[n].score = deploymentHas(budgets, options, ObjectOf(calls[n])).score
    /\ result.err # FailedToCreateSelector

\* what the range over the entries ids of the map of rules can end with,
\* started on the Scorecard card, over the orders in which a Go map can yield
\* its entries: the Scorecard after the last entry, or the error returned
RECURSIVE RangeOutcomes(_, _)
RangeOutcomes(ids, card) ==
    IF ids = {} THEN {[returned |-> FALSE, err |-> "", card |-> card]}
    ELSE UNION { LET step == RangeStep(loop, idx, id, card)
                 IN IF step.aborts
                    THEN {[returned |-> TRUE, err |-> step.err, card |-> EmptyChecks]}
                    ELSE RangeOutcomes(ids \ {id}, step.card) : id \in ids }

\* C14: Score has one output: at every point of a run the range over the
\* rules of the object ends, in whatever order the map of rules yields the
\* entries still to visit, with the same entries in the same order in the
\* ScoredObject, or with the same returned error.
C14_OneOutput ==
    pc = "score" => Cardinality(RangeOutcomes(pending, scoreCard)) = 1

\* the calls of rule functions in the named loop on objects of the kinds
CallsOn(list, kinds) ==
    {n \in 1..Len(calls) : calls[n].list = list /\ calls[n].kind \in kinds}

\* every Pod rule of the registry was called on every object of the generic
\* pod-template iteration
ScoredLikeOthers ==
    \A i \in 1..Len(allObjects.PodSpeccers) :
        \A id \in DOMAIN allChecks.pods :
            \E n \in 1..Len(calls) :
                /\ calls[n].list = "PodSpeccers" /\ calls[n].idx = i /\ calls[n].ID = id

\* C15: with skip-jobs set, no Pod rule is called on a Job or a CronJob in
\* the generic pod-template iteration and no CronJob rule on a CronJob; with
\* skip-jobs not set, a run that returns a scorecard has called every Pod
\* rule on the Jobs and CronJobs as on the other pod-template-bearing objects.
C15_SkipJobs ==
    pc \in {"score", "done"} =>
        /\ runConfig.SkipJobs =>
              /\ CallsOn("PodSpeccers", {"Job", "CronJob"}) = {}
              /\ CallsOn("CronJobs", {"CronJob"}) = {}
        /\ (~runConfig.SkipJobs /\ pc = "done" /\ result.hasScoreCard) => ScoredLikeOthers

\* the target type of the Register method
TargetTypeOfMethod(method) ==
    IF method \in {"RegisterPodCheck", "RegisterOptionalPodCheck"} THEN "Pod" ELSE "Deployment"

\* All() returned one entry per registration, in the order of registration
ListedInOrder ==
    /\ Len(listed.value) = Len(registrations)
    /\ \A n \in 1..Len(registrations) :
          /\ listed.value[n].Name = registrations[n].name
          /\ listed.value[n].TargetType = TargetTypeOfMethod(registrations[n].method)

\* C18: after N registrations against one kind on a fresh registry, All()
\* returns N entries, in the order of registration, with pairwise different
\* ids.
C18_AllListsRegistrations ==
    listed.called =>
        /\ ListedInOrder
        /\ \A n, m \in 1..Len(listed.value) :
              listed.value[n].ID = listed.value[m].ID => n = m

(***************************************************************************)
(* Properties of the rule functions                                        *)
(***************************************************************************)
\* the namespace with the default namespace in the place of an empty one
ResolvedNamespace(ns, options) == IF ns = "" THEN options.Namespace ELSE ns

\* whether the call of the named rule function has returned
RuleCalled(fn) == ruleOut.called /\ ruleCall.fn = fn

\* the policy's selector parses and matches the labels
PodSelectorMatches(netPol, labels) ==
    /\ ~LabelSelectorAsSelectorFails(netPol.PodSelector)
    /\ SelectorMatches(netPol.PodSelector, labels)

\* the policy's selector matches the pod template's labels of the object,
\* and the policy's namespace is the namespace of the object
CoversObject(netPol, ps, options) ==
    /\ PodSelectorMatches(netPol, ps.Template.Labels)
    /\ ResolvedNamespace(netPol.Namespace, options) = ResolvedNamespace(ps.Namespace, options)

Covering ==
    {n \in 1..Len(ruleCall.allNetpols) :
        CoversObject(ruleCall.allNetpols[n], ruleCall.ps, ruleCall.options)}

\* the directions a policy covers
CoversDirection(netPol, direction) ==
    IF netPol.PolicyTypes = <<>>
    THEN direction = PolicyTypeIngress \/ netPol.Egress > 0
    ELSE \E t \in 1..Len(netPol.PolicyTypes) : netPol.PolicyTypes[t] = direction

\* the directions some covering policy covers
CoveredDirections ==
    {d \in {PolicyTypeIngress, PolicyTypeEgress} :
        \E n \in Covering : CoversDirection(ruleCall.allNetpols[n], d)}

\* C20: the grade of 'Pod NetworkPolicy' of a Pod is AllOK when the covering
\* policies cover ingress and egress, Warning when they cover exactly one of
\* them, Critical when they cover none, which is the case when no policy
\* covers the pod; a policy without policyTypes covers ingress, and egress
\* only with an egress rule, a policy with policyTypes the listed directions.
C20_GradeFromCoveredDirections ==
    (RuleCalled("podHasNetworkPolicy") /\ ruleCall.ps.Kind = "Pod") =>
        /\ ruleOut.err = ""
        /\ ruleOut.score.Grade =
             CASE Cardinality(CoveredDirections) = 2 -> GradeAllOK
               [] Cardinality(CoveredDirections) = 1 -> GradeWarning
               [] OTHER -> GradeCritical
        /\ Covering = {} => ruleOut.score.Grade = GradeCritical

\* a pod covered by one policy without policyTypes and with an egress rule
\* is graded AllOK, beside a policy of another namespace
C20_Witness ==
    /\ RuleCalled("podHasNetworkPolicy")
    /\ ruleCall.ps.Kind = "Pod"
    /\ Cardinality(Covering) = 1
    /\ Len(ruleCall.allNetpols) = 2
    /\ \E n \in Covering :
          ruleCall.allNetpols[n].PolicyTypes = <<>> /\ ruleCall.allNetpols[n].Egress > 0
    /\ ruleOut.score.Grade = GradeAllOK

\* the HPA references the object: same apiVersion, same kind whatever the
\* letter case, same name, same namespace after the default is substituted
References(hpa, o, options) ==
    /\ hpa.HpaTarget.APIVersion = o.APIVersion
    /\ EqualFold(hpa.HpaTarget.Kind, o.Kind)
    /\ hpa.HpaTarget.Name = o.Name
    /\ ResolvedNamespace(hpa.Namespace, options) = ResolvedNamespace(o.Namespace, options)

\* some Service of the Deployment's namespace selects its pod template
ReferencedByService(svcs, deployment, options) ==
    \E n \in 1..Len(svcs) :
        /\ ResolvedNamespace(svcs[n].Namespace, options)
             = ResolvedNamespace(deployment.Namespace, options)
        /\ SelectorMatches(LabelSelector(svcs[n].Selector, <<>>), deployment.Template.Labels)

\* C12: each of the three resolvers finds the Deployment referenced by an
\* HPA exactly when References holds for one of the HPAs: 'HorizontalPod-
\* Autoscaler has target' grades AllOK, 'Deployment Replicas' of a Deployment
\* selected by a Service is skipped, 'Deployment targeted by HPA does not
\* have replicas configured' is not skipped.
C12_SameReferenceRelation ==
    /\ RuleCalled("hpaHasTarget") =>
         (ruleOut.score.Grade = GradeAllOK
            <=> \E n \in 1..Len(ruleCall.options.AllTargetableObjs) :
                    References(ruleCall.hpa, ruleCall.options.AllTargetableObjs[n],
                               ruleCall.options))
    /\ (/\ RuleCalled("deploymentReplicas")
        /\ ReferencedByService(ruleCall.svcs, ruleCall.deployment, ruleCall.options)) =>
         (ruleOut.score.Skipped
            <=> \E n \in 1..Len(ruleCall.hpas) :
                    References(ruleCall.hpas[n], ruleCall.deployment, ruleCall.options))
    /\ RuleCalled("hpaDeploymentNoReplicas") =>
         (~ruleOut.score.Skipped
            <=> \E n \in 1..Len(ruleCall.allHPAs) :
                    References(ruleCall.allHPAs[n], ruleCall.deployment, ruleCall.options))

\* the result the table of 'Deployment Replicas' gives the call
ReplicasTable(svcs, hpas, options, deployment) ==
    IF ~ReferencedByService(svcs, deployment, options)
    THEN [Skipped |-> TRUE, Grade |-> GradeUnset]
    ELSE IF \E n \in 1..Len(hpas) : References(hpas[n], deployment, options)
    THEN [Skipped |-> TRUE, Grade |-> GradeUnset]
    ELSE IF (IF deployment.Replicas.isNil THEN 1 ELSE deployment.Replicas.v) >= 2
    THEN [Skipped |-> FALSE, Grade |-> GradeAllOK]
    ELSE [Skipped |-> FALSE, Grade |-> GradeWarning]

\* C19: 'Deployment Replicas' is skipped without a grade when no Service of
\* the Deployment's namespace selects its pod template, else skipped when an
\* HPA of that namespace references the Deployment, else AllOK with at least
\* 2 replicas and Warning below, an unset replica count being 1.
C19_DeploymentReplicasTable ==
    RuleCalled("deploymentReplicas") =>
        /\ ruleOut.err = ""
        /\ [Skipped |-> ruleOut.score.Skipped, Grade |-> ruleOut.score.Grade]
             = ReplicasTable(ruleCall.svcs, ruleCall.hpas, ruleCall.options, ruleCall.deployment)

\* the Service exposes the port the backend references: by number when the
\* backend gives a number, by name when it gives a name
ExposesPort(service, backend) ==
    \E p \in 1..Len(service.Ports) :
        IF backend.Port.Number > 0
        THEN service.Ports[p].Port = backend.Port.Number
        ELSE service.Ports[p].Name = backend.Port.Name

\* the path's backend names a Service of the Ingress's namespace that
\* exposes the referenced port
BackendResolves(ingress, path, allServices, options) ==
    /\ ~path.Backend.Service.isNil
    /\ \E s \in 1..Len(allServices) :
          /\ ResolvedNamespace(allServices[s].Namespace, options)
               = ResolvedNamespace(ingress.Namespace, options)
          /\ allServices[s].Name = path.Backend.Service.Name
          /\ ExposesPort(allServices[s], path.Backend.Service)

\* the HTTP paths of the Ingress of the call
CallPaths == httpPaths(ruleCall.ingress.Rules, 1)

\* a path of the call references a port number none of the Services of its
\* name in the namespace has
MissingPortNumber(path) ==
    /\ ~path.Backend.Service.isNil
    /\ path.Backend.Service.Port.Number > 0
    /\ ~BackendResolves(ruleCall.ingress, path, ruleCall.allServices, ruleCall.options)

\* C13: 'Ingress targets Service' grades AllOK exactly when the backend of
\* every HTTP path resolves, and a path that references a port number no
\* Service of that name has makes the grade Critical with a comment that
\* names the service and the port number.
C13_IngressBackendsResolve ==
    RuleCalled("ingressTargetsService") =>
        /\ ruleOut.score.Grade = GradeAllOK
             <=> \A n \in 1..Len(CallPaths) :
                    BackendResolves(ruleCall.ingress, CallPaths[n], ruleCall.allServices,
                                    ruleCall.options)
        /\ \A n \in 1..Len(CallPaths) :
              MissingPortNumber(CallPaths[n]) =>
                 /\ ruleOut.score.Grade = GradeCritical
                 /\ \E c \in 1..Len(ruleOut.score.Comments) :
                       ruleOut.score.Comments[c].Description
                         = "No service with name " \o CallPaths[n].Backend.Service.Name
                           \o " and port number " \o Itoa(CallPaths[n].Backend.Service.Port.Number)
                           \o " was found"

\* one of the two budget checks has returned
BudgetRuleCalled == RuleCalled("statefulSetHas") \/ RuleCalled("deploymentHas")

\* the budget's selector matches the pod template's labels of the workload
BudgetSelects(budget, workload) ==
    /\ ~LabelSelectorAsSelectorFails(budget.Selector)
    /\ SelectorMatches(budget.Selector, workload.Template.Labels)

\* the budget selects the workload and is in its namespace
BudgetCovers(budget, workload, options) ==
    /\ BudgetSelects(budget, workload)
    /\ ResolvedNamespace(budget.Namespace, options)
         = ResolvedNamespace(workload.Namespace, options)

\* the budgets of the call that select the workload from another namespace
BudgetsElsewhere ==
    {n \in 1..Len(ruleCall.budgets) :
        /\ BudgetSelects(ruleCall.budgets[n], ruleCall.workload)
        /\ ~BudgetCovers(ruleCall.budgets[n], ruleCall.workload, ruleCall.options)}

\* the comment of the result has the description
HasDescription(description) ==
    \E c \in 1..Len(ruleOut.score.Comments) :
        ruleOut.score.Comments[c].Description = description

\* the description that names the namespaces of the budgets elsewhere
ElsewhereDescription ==
    LET elsewhere == SelectSeq([n \in 1..Len(ruleCall.budgets) |-> n],
                               LAMBDA n : n \in BudgetsElsewhere)
        namespaces == [k \in 1..Len(elsewhere) |->
                          ResolvedNamespace(ruleCall.budgets[elsewhere[k]].Namespace,
                                            ruleCall.options)]
    IN NoMatchingBudgetDescription
       \o "A matching budget was found, but in a different namespace. expected='"
       \o ResolvedNamespace(ruleCall.workload.Namespace, ruleCall.options)
       \o "' got='" \o FormatStrings(namespaces, 1) \o "'"

\* C21: the two budget checks are skipped exactly when the replica count is
\* set and below 2; else they grade AllOK exactly when a budget selects the
\* pod template's labels in the namespace of the workload, and Critical with
\* a comment otherwise, the comment naming the namespaces of the budgets that
\* select the labels from another namespace.
C21_BudgetCoverage ==
    BudgetRuleCalled =>
        LET covered == \E n \in 1..Len(ruleCall.budgets) :
                           BudgetCovers(ruleCall.budgets[n], ruleCall.workload, ruleCall.options)
            few == ~ruleCall.workload.Replicas.isNil /\ ruleCall.workload.Replicas.v < 2
        IN /\ ruleOut.score.Skipped <=> few
           /\ ~few =>
                /\ ruleOut.score.Grade = (IF covered THEN GradeAllOK ELSE GradeCritical)
                /\ ~covered => Len(ruleOut.score.Comments) > 0
                /\ (~covered /\ BudgetsElsewhere # {}) => HasDescription(ElsewhereDescription)

\* the lists that hold the elements of list in another or the same order
Reorderings(list) ==
    {[n \in 1..Len(list) |-> list[p[n]]] :
        p \in {q \in [1..Len(list) -> 1..Len(list)] :
                  \A i, j \in 1..Len(list) : q[i] = q[j] => i = j}}

\* C29: hasMatching finds a match, and returns an error, for the budgets of
\* the call exactly when it does for every other order of the same budgets.
C29_BudgetOrderIrrelevant ==
    (BudgetRuleCalled /\ ~ruleOut.score.Skipped) =>
        \A budgets \in Reorderings(ruleCall.budgets) :
            LET m == hasMatching(budgets, ruleCall.workload.Namespace,
                                 ruleCall.workload.Template.Labels, ruleCall.options)
            IN /\ m.match = (ruleOut.score.Grade = GradeAllOK)
               /\ (m.err # "") = (ruleOut.err # "")

\* C23: 'Deployment Strategy' is skipped when no Service of the Deployment's
\* namespace selects its pod template's labels; with such a Service it
\* grades AllOK for the strategy type RollingUpdate or none, and Warning for
\* any other.
C23_DeploymentStrategy ==
    RuleCalled("deploymentRolloutStrategy") =>
        /\ ruleOut.err = ""
        /\ IF ~ReferencedByService(ruleCall.svcs, ruleCall.deployment, ruleCall.options)
           THEN ruleOut.score.Skipped /\ ruleOut.score.Grade = GradeUnset
           ELSE /\ ~ruleOut.score.Skipped
                /\ ruleOut.score.Grade =
                     (IF ruleCall.deployment.Strategy \in {"RollingUpdate", ""}
                      THEN GradeAllOK ELSE GradeWarning)

\* a Deployment without strategy type that a Service of its namespace
\* selects is graded AllOK
C23_Witness ==
    /\ RuleCalled("deploymentRolloutStrategy")
    /\ ReferencedByService(ruleCall.svcs, ruleCall.deployment, ruleCall.options)
    /\ ruleCall.deployment.Strategy = ""
    /\ ruleCall.deployment.Namespace = "prod"
    /\ ruleOut.score.Grade = GradeAllOK

\* every key/value pair of the selector is in the labels
PairsPresent(selector, labels) ==
    \A k \in DOMAIN selector : k \in DOMAIN labels /\ labels[k] = selector[k]

\* the Service targets the labels of a pod of the namespace
ServiceTargets(service, labels, namespace, options) ==
    /\ PairsPresent(service.Selector, labels)
    /\ ResolvedNamespace(service.Namespace, options) = ResolvedNamespace(namespace, options)

\* the label sets of the pods and pod templates of the call that the
\* Service of the call targets
TargetedByService ==
    {n \in 1..Len(ruleCall.pods) :
        ServiceTargets(ruleCall.service, ruleCall.pods[n].Labels,
                       ruleCall.pods[n].Namespace, ruleCall.options)}
    \cup
    {Len(ruleCall.pods) + n : n \in
        {m \in 1..Len(ruleCall.podspecers) :
            ServiceTargets(ruleCall.service, ruleCall.podspecers[m].Template.Labels,
                           ruleCall.podspecers[m].Namespace, ruleCall.options)}}

\* C24: the label match of a Service selector is the presence of every pair
\* of the selector in the labels, whatever the namespaces; and 'Service
\* Targets Pod' finds a pod for a Service exactly when a pod or pod template
\* of the Service's namespace has every pair of the selector in its labels.
C24_ServiceTargetsPodTemplate ==
    (RuleCalled("serviceTargetsPod") /\ ruleCall.service.Type # ServiceTypeExternalName) =>
        /\ \A n \in 1..Len(ruleCall.pods) :
              LabelSelectorMatchesLabels(ruleCall.service.Selector, ruleCall.pods[n].Labels)
                = PairsPresent(ruleCall.service.Selector, ruleCall.pods[n].Labels)
        /\ \A n \in 1..Len(ruleCall.podspecers) :
              LabelSelectorMatchesLabels(ruleCall.service.Selector,
                                         ruleCall.podspecers[n].Template.Labels)
                = PairsPresent(ruleCall.service.Selector, ruleCall.podspecers[n].Template.Labels)
        /\ ruleOut.score.Grade = GradeAllOK <=> TargetedByService # {}

\* a Service of two pairs finds no pod although the pod template of another
\* namespace has both pairs and the Pod of its namespace has one of them
C24_Witness ==
    /\ RuleCalled("serviceTargetsPod")
    /\ ruleCall.service.Type # ServiceTypeExternalName
    /\ Cardinality(DOMAIN ruleCall.service.Selector) = 2
    /\ Len(ruleCall.pods) = 1 /\ Len(ruleCall.podspecers) = 1
    /\ PairsPresent(ruleCall.service.Selector, ruleCall.podspecers[1].Template.Labels)
    /\ ~PairsPresent(ruleCall.service.Selector, ruleCall.pods[1].Labels)
    /\ DOMAIN ruleCall.pods[1].Labels # {}
    /\ ruleOut.score.Grade = GradeCritical


(***************************************************************************)
(* Properties of the registry: rules of the same id                        *)
(***************************************************************************)
\* the map of Checks the Register method stores into
MapOfMethod(method) ==
    IF method \in {"RegisterPodCheck", "RegisterOptionalPodCheck"} THEN "pods" ELSE "deployments"

\* the Check the registration makes
CheckOfRegistration(r) ==
    NewCheck(r.name, TargetTypeOfMethod(r.method),
             r.method \in {"RegisterOptionalPodCheck", "RegisterOptionalDeploymentCheck"})

\* the registrations made so far that derive the id
RegisteredWithID(id) ==
    {n \in 1..nreg : machineFriendlyName(registrations[n].name) = id}

\* the greatest number of a non-empty set of numbers
Latest(S) == CHOOSE n \in S : \A m \in S : m <= n

\* C26: when two registrations against a kind derive the same id and the id
\* is not ignored, the map of the kind holds under that id the rule that
\* was registered last, and All() lists every registration, both of them too.
C26_SameIDLaterRuleWins ==
    \A i, j \in 1..nreg :
        (/\ i < j
         /\ machineFriendlyName(registrations[i].name) = machineFriendlyName(registrations[j].name)
         /\ machineFriendlyName(registrations[i].name) \notin allChecks.cnf.IgnoredTests) =>
            LET id == machineFriendlyName(registrations[i].name)
                m == allChecks[MapOfMethod(registrations[j].method)]
                last == registrations[Latest(RegisteredWithID(id))]
            IN /\ id \in DOMAIN m
               /\ m[id].Check = CheckOfRegistration(last)
               /\ m[id].Fn = last.fn
               /\ Len(allChecks.all) = nreg
               /\ allChecks.all[i] = CheckOfRegistration(registrations[i])
               /\ allChecks.all[j] = CheckOfRegistration(registrations[j])
               /\ listed.called =>
                     /\ listed.value[i] = CheckOfRegistration(registrations[i])
                     /\ listed.value[j] = CheckOfRegistration(registrations[j])

\* All() has listed two rules of the same id and of different names, and
\* the map holds the second
C26_Witness ==
    /\ listed.called
    /\ nreg = 2
    /\ registrations[1].name = "Container Image Tag"
    /\ registrations[2].name = "container image tag"
    /\ registrations[1].method = "RegisterPodCheck"
    /\ registrations[2].method = "RegisterOptionalPodCheck"
    /\ DOMAIN allChecks.pods = {"container-image-tag"}
    /\ allChecks.pods["container-image-tag"].Check.Name = "container image tag"
    /\ allChecks.pods["container-image-tag"].Check.Optional
    /\ Len(listed.value) = 2


(***************************************************************************)
(* Properties of Score: the order of the rule invocations                  *)
(***************************************************************************)
\* the groups of objects in the order Score is to process them
GroupOrder ==
    <<"Ingresses", "Metas", "Pods", "PodSpeccers", "Services", "StatefulSets", "Deployments",
      "NetworkPolicies", "CronJobs", "HorizontalPodAutoscalers", "PodDisruptionBudgets">>

\* the place of the group in GroupOrder
GroupPosition(list) == CHOOSE n \in 1..Len(GroupOrder) : GroupOrder[n] = list

\* C22: the rule invocations of Score come one after the other, group by
\* group in the order ingresses, generic-metadata objects, pods,
\* pod-template-bearing objects, services, statefulsets, deployments, network
\* policies, cronjobs, horizontal pod autoscalers, pod disruption budgets,
\* and within a group object by object in the order of the object model.
C22_GroupOrder ==
    /\ \A n \in 1..Len(calls) :
          /\ calls[n].list \in {GroupOrder[g] : g \in 1..Len(GroupOrder)}
          /\ calls[n].idx \in 1..Len(allObjects[calls[n].list])
          /\ calls[n].key = resourceRefKey(allObjects[calls[n].list][calls[n].idx])
    /\ \A n, m \in 1..Len(calls) :
          n < m =>
              \/ GroupPosition(calls[n].list) < GroupPosition(calls[m].list)
              \/ /\ calls[n].list = calls[m].list
                 /\ calls[n].idx <= calls[m].idx

\* Score returned a scorecard after invocations on an Ingress, on two
\* pod-template-bearing objects and on a PodDisruptionBudget
C22_Witness ==
    /\ pc = "done"
    /\ result.hasScoreCard
    /\ \E a, b, c, d \in 1..Len(calls) :
          /\ a < b /\ b < c /\ c < d
          /\ calls[a].list = "Ingresses"
          /\ calls[b].list = "PodSpeccers" /\ calls[c].list = "PodSpeccers"
          /\ calls[b].idx < calls[c].idx
          /\ calls[d].list = "PodDisruptionBudgets"


(***************************************************************************)
(* Properties of the two NetworkPolicy checks together                     *)
(***************************************************************************)
\* the grade of 'Pod NetworkPolicy' on the object w when netPol is the one
\* policy of the run
PodNetworkPolicyGrade(netPol, w, options) ==
    podHasNetworkPolicy(<<netPol>>, options, w).score.Grade

CheckedContainers(options, ps) ==
    (IF options.SkipInitContainers THEN <<>> ELSE ps.Template.Spec.InitContainers)
    \o ps.Template.Spec.Containers

\* the effective id of a container: the container-level value, else the
\* pod-level value, else none
EffectiveID(containerSec, podSec, field) ==
    IF ~containerSec.isNil /\ ~containerSec[field].isNil THEN containerSec[field]
    ELSE IF ~podSec.isNil THEN podSec[field]
    ELSE NilInt

\* the effective id is set and strictly greater than 10000
AboveTenThousand(id) == ~id.isNil /\ id.v > 10000

\* C25: the call of 'Container Security Context User Group ID' leaves the
\* podSpecer it is invoked on as it was: the security contexts of the
\* containers (runAsUser, runAsGroup) are the same before and after the call.
C25_RuleLeavesObjectUnchanged ==
    RuleCalled("containerSecurityContextUserGroupID") => ruleOut.ps = ruleCall.ps

\* C27: 'Container Security Context User Group ID' grades AllOK exactly when
\* every checked container has an effective runAsUser and an effective
\* runAsGroup strictly greater than 10000, and Critical otherwise.
C27_UserGroupIDAboveTenThousand ==
    RuleCalled("containerSecurityContextUserGroupID") =>
        LET cs == CheckedContainers(ruleCall.options, ruleCall.ps)
            podSec == ruleCall.ps.Template.Spec.SecurityContext
            allAbove ==
                \A n \in 1..Len(cs) :
                    /\ AboveTenThousand(EffectiveID(cs[n].SecurityContext, podSec, "RunAsUser"))
                    /\ AboveTenThousand(EffectiveID(cs[n].SecurityContext, podSec, "RunAsGroup"))
        IN /\ ruleOut.score.Grade \in {GradeAllOK, GradeCritical}
           /\ ruleOut.score.Grade = GradeAllOK <=> allAbove

(***************************************************************************)
(* Properties of the skip expressions                                      *)
(***************************************************************************)
\* the raw expression is malformed: it does not split into exactly two
\* parts at an unquoted '=', or its path is no YAML path, or its value is
\* no regular expression
Malformed(rawExpression) ==
    LET split == splitRawExpression(rawExpression)
    IN \/ split.err # ""
       \/ ~PathCompiles(unquote(split.rawPath))
       \/ ~RegexCompiles(unquote(split.value))

\* the raw expressions the loop has handed to ParseSkipExpression
ParsedSoFar ==
    IF skipParse.phase \in {"failed", "crashed"}
    THEN 1..(Len(skipParse.skipExpressions) + 1)
    ELSE 1..Len(skipParse.skipExpressions)

\* C28: ParseSkipExpression returns an error and no expression, and does
\* not crash, for every malformed raw expression; the command parses the
\* skip expressions before it parses a file and ends with the error of the
\* first malformed one.
C28_MalformedSkipExpressionIsAnError ==
    /\ \A n \in ParsedSoFar :
          Malformed(skipParse.raw[n]) =>
              LET out == ParseSkipExpression(skipParse.raw[n])
              IN out.err # "" /\ out.expr.isNil /\ ~out.panics
    /\ skipParse.phase # "crashed"
    /\ skipParse.phase = "files" =>
          \A n \in 1..Len(skipParse.raw) : ~Malformed(skipParse.raw[n])
    /\ skipParse.phase = "failed" =>
          /\ skipParse.err # ""
          /\ Malformed(skipParse.raw[Len(skipParse.skipExpressions) + 1])
          /\ \A n \in 1..Len(skipParse.skipExpressions) : ~Malformed(skipParse.raw[n])

====
